---- MODULE Spec2Model ----
(***************************************************************************)
(* talk-with-eyes: the gaze filter (hooks/useEyeTracking), the tracking    *)
(* session state machine of the same hook, and the dwell-based zone        *)
(* selector (components/PhoneticWheel) driven by the application shell     *)
(* (EyeTalkApp).                                                           *)
(*                                                                         *)
(* Numbers.  Coordinates are fixed-point: PX units per pixel.  Times are   *)
(* milliseconds.  Smoothing factors and weights are thousandths.  A null   *)
(* reference is NULL where the value is a number and the empty sequence    *)
(* where the value is an object.                                           *)
(***************************************************************************)
EXTENDS Integers, Sequences, FiniteSets, TLC

VARIABLES
    now,                \* Date.now()
    \* ---- useEyeTracking
    status, error, isManuallyStopped, hasCalibrated, restarting,
    restartTimer, healthInterval, lastResult, gazeHistory, smoothedPoint,
    gazeData, showCalibration,
    \* ---- window.webgazer
    listener, began, paused, pendingBegin,
    \* ---- EyeTalkApp / PhoneticWheel
    language, selectionLevel, hoveredZone, selectedZone, dwellStartTime,
    dwellProgress, relativeGaze, cooldownUntil, rafRef, frameDue,
    \* ---- the page: where getBoundingClientRect() finds the wheel, in pixels
    containerOrigin,
    \* ---- observation of the last step
    lastAction, rawIn, filterOut, emitted, calls, committed, lastCommit,
    commitGap, fresh, fed, starts, stopRequested,
    \* ---- utils/crypto: the arguments and results of the last calls
    cipherIn, cipherKey, cipherOut, cipherBack

hookVars == <<status, error, isManuallyStopped, hasCalibrated, restarting,
              restartTimer, healthInterval, lastResult, gazeData, showCalibration>>
filterVars == <<gazeHistory, smoothedPoint>>
trackerVars == <<listener, began, paused, pendingBegin>>
wheelVars == <<language, selectionLevel, hoveredZone, selectedZone, dwellStartTime,
               dwellProgress, relativeGaze, cooldownUntil, rafRef, frameDue>>
obsVars == <<lastAction, rawIn, filterOut, emitted, calls, committed, lastCommit,
             commitGap, fresh, fed, starts, stopRequested>>
cryptoVars == <<cipherIn, cipherKey, cipherOut, cipherBack>>
layoutVars == <<containerOrigin>>
vars == <<now, hookVars, filterVars, trackerVars, wheelVars, obsVars, cryptoVars,
          layoutVars>>

----------------------------------------------------------------------------
(* Representation *)

PX == 10
NULL == -1
NONFINITE == 2000000

Pt(x, y) == [x |-> x, y |-> y]
Sample(x, y, t) == [x |-> x, y |-> y, time |-> t]

(* the element of a singleton: {f(v) : v \in {e}} computes e once for f *)
The(S) == CHOOSE r \in S : TRUE

(* Number.isFinite taking every value for finite *)
isFiniteAlways(v) == TRUE

(* Number.isFinite *)
isFinite(v) == v # NONFINITE

Min(a, b) == IF a < b THEN a ELSE b
Max(a, b) == IF a > b THEN a ELSE b
clamp(value, lo, hi) == Min(hi, Max(lo, value))

(* Math.sqrt on integers, rounded down *)
RECURSIVE sqrtBetween(_, _, _)
sqrtBetween(n, lo, hi) ==
    IF lo >= hi THEN lo
    ELSE LET mid == (lo + hi + 1) \div 2
         IN  IF mid * mid <= n THEN sqrtBetween(n, mid, hi)
             ELSE sqrtBetween(n, lo, mid - 1)
sqrt(n) == sqrtBetween(n, 0, Min(n, 46340))

(* the square of Math.hypot *)
hypot2(dx, dy) == dx * dx + dy * dy
hypot(dx, dy) == sqrt(hypot2(dx, dy))

(* Math.exp(-age / 80), in thousandths: the product of exp(-2^k / 80) over  *)
(* the bits k of age, each factor to four decimals.                         *)
EXP_BITS == <<9876, 9753, 9512, 9048, 8187, 6703, 4493, 2019, 408, 17>>
RECURSIVE expBits(_, _)
expBits(age, k) ==
    IF age = 0 THEN 10000
    ELSE LET rest == expBits(age \div 2, k + 1)
         IN  IF age % 2 = 1 THEN (rest * EXP_BITS[k] + 5000) \div 10000 ELSE rest
expDecay(age) == IF age >= 1024 THEN 0 ELSE (expBits(age, 1) + 5) \div 10

RECURSIVE SumTo(_, _)
SumTo(f, n) == IF n = 0 THEN 0 ELSE f[n] + SumTo(f, n - 1)

----------------------------------------------------------------------------
(* useEyeTracking: constants *)

AUTO_RESTART_THRESHOLD == 25000
HEALTH_CHECK_INTERVAL == 4000
RESTART_DELAY == 250
GAZE_HISTORY_MS == 2000
MAX_HISTORY_POINTS == 200
FIXATION_WINDOW_MS == 800
FIXATION_MIN_DURATION_MS == 250
FIXATION_MAX_RADIUS_PX == 45
MIN_FIXATION_SAMPLES == 8
SMOOTH_MIN_ALPHA == 80
SMOOTH_MAX_ALPHA == 600
MAX_VELOCITY_PX_PER_S == 1500
OUTLIER_THRESHOLD_PX == 120
STABILITY_FACTOR == 150

----------------------------------------------------------------------------
(* useEyeTracking: computeFilteredGazePoint *)

(* isOutlier measuring the vertical distance only *)
isOutlierVertical(history, rawX, rawY) ==
    /\ Len(history) > 0
    /\ LET lastPoint == history[Len(history)]
       IN  hypot2(rawY - lastPoint.y, rawY - lastPoint.y)
             > (OUTLIER_THRESHOLD_PX * PX) * (OUTLIER_THRESHOLD_PX * PX)

(* the outlier test against the last recorded raw sample *)
isOutlier(history, rawX, rawY) ==
    /\ Len(history) > 0
    /\ LET lastPoint == history[Len(history)]
       IN  hypot2(rawX - lastPoint.x, rawY - lastPoint.y)
             > (OUTLIER_THRESHOLD_PX * PX) * (OUTLIER_THRESHOLD_PX * PX)

(* while (history.length > MAX_HISTORY_POINTS) history.shift() *)
RECURSIVE shiftOverCount(_)
shiftOverCount(history) ==
    IF Len(history) > MAX_HISTORY_POINTS THEN shiftOverCount(Tail(history))
    ELSE history

(* while (history.length && timestamp - history[0].time > GAZE_HISTORY_MS) *)
RECURSIVE shiftOverAge(_, _)
shiftOverAge(history, timestamp) ==
    IF Len(history) > 0 /\ timestamp - history[1].time > GAZE_HISTORY_MS
    THEN shiftOverAge(Tail(history), timestamp)
    ELSE history

pushSample(history, rawX, rawY, timestamp) ==
    shiftOverAge(shiftOverCount(Append(history, Sample(rawX, rawY, timestamp))), timestamp)

(* the newest samples no older than FIXATION_WINDOW_MS, scanning backwards  *)
(* and stopping at the first older one                                      *)
RECURSIVE windowStart(_, _, _)
windowStart(history, timestamp, i) ==
    IF i >= 1 /\ timestamp - history[i].time <= FIXATION_WINDOW_MS
    THEN windowStart(history, timestamp, i - 1)
    ELSE i + 1
windowPoints(history, timestamp) ==
    SubSeq(history, windowStart(history, timestamp, Len(history)), Len(history))

(* the time-weighted centroid and the fixation test over the window         *)
fixation(wp, timestamp) ==
    LET n == Len(wp)
        w == [i \in 1..n |-> expDecay(Max(0, timestamp - wp[i].time))]
        weightSum == SumTo(w, n)
        weightedX == SumTo([i \in 1..n |-> wp[i].x * w[i]], n)
        weightedY == SumTo([i \in 1..n |-> wp[i].y * w[i]], n)
        centroidX == weightedX \div weightSum
        centroidY == weightedY \div weightSum
        dispersionAccumulator ==
            SumTo([i \in 1..n |-> hypot2(wp[i].x - centroidX, wp[i].y - centroidY)], n)
        radius == FIXATION_MAX_RADIUS_PX * PX
    IN  IF /\ n >= MIN_FIXATION_SAMPLES
           /\ wp[n].time - wp[1].time >= FIXATION_MIN_DURATION_MS
           /\ weightSum > 0
           /\ dispersionAccumulator <= radius * radius * n
        THEN <<Pt(centroidX, centroidY)>>
        ELSE <<>>

(* the fixation output: the centroid pulled from the previous point by the   *)
(* stability factor                                                          *)
(* stabilize scaling the centroid instead of blending towards it *)
stabilizeFromOrigin(smoothed, centroid) ==
    IF smoothed # <<>>
    THEN Pt((STABILITY_FACTOR * centroid.x) \div 1000, (STABILITY_FACTOR * centroid.y) \div 1000)
    ELSE centroid

(* stabilize with the weight on the centroid *)
stabilizeTowardsCentroid(smoothed, centroid) ==
    IF smoothed # <<>>
    THEN Pt(smoothed[1].x
              + ((1000 - STABILITY_FACTOR) * (centroid.x - smoothed[1].x)) \div 1000,
            smoothed[1].y
              + ((1000 - STABILITY_FACTOR) * (centroid.y - smoothed[1].y)) \div 1000)
    ELSE centroid

stabilize(smoothed, centroid) ==
    IF smoothed # <<>>
    THEN Pt(smoothed[1].x + (STABILITY_FACTOR * (centroid.x - smoothed[1].x)) \div 1000,
            smoothed[1].y + (STABILITY_FACTOR * (centroid.y - smoothed[1].y)) \div 1000)
    ELSE centroid

RECURSIVE gcd(_, _)
gcd(a, b) == IF b = 0 THEN a ELSE gcd(b, a % b)

(* velocity > MAX_VELOCITY_PX_PER_S * tenths / 10, where velocity is         *)
(* distance / dt * 1000 px/s: compared exactly, on the squares               *)
fasterThan(distance2, dt, tenths) ==
    LET g == gcd(10000, MAX_VELOCITY_PX_PER_S * tenths * PX)
        l == 10000 \div g
        r == (MAX_VELOCITY_PX_PER_S * tenths * PX) \div g
    IN  distance2 * l * l > r * r * dt * dt

(* distance > FIXATION_MAX_RADIUS_PX * 6 && velocity > MAX_VELOCITY * 0.8    *)
isExtremeSaccade(distance2, dt) ==
    /\ distance2 > (FIXATION_MAX_RADIUS_PX * 6 * PX) * (FIXATION_MAX_RADIUS_PX * 6 * PX)
    /\ fasterThan(distance2, dt, 8)

(* smoothingAlpha without smoothing *)
smoothingAlphaNone(distance, velocity) == 1000

smoothingAlpha(distance, velocity) ==
    LET v == (clamp(velocity, 0, MAX_VELOCITY_PX_PER_S) * 1000) \div MAX_VELOCITY_PX_PER_S
        normalizedVelocity == (v * sqrt(v * 1000)) \div 1000
        distanceFactor == clamp((distance * 1000) \div (100 * PX), 0, 1000)
    IN  clamp(SMOOTH_MIN_ALPHA
                + ((SMOOTH_MAX_ALPHA - SMOOTH_MIN_ALPHA)
                     * (3 * normalizedVelocity + 7 * distanceFactor)) \div 10000,
              SMOOTH_MIN_ALPHA, SMOOTH_MAX_ALPHA)

(* the moving average over the filtered point and up to three raw samples    *)
(* before the newest, weights 0.5 / (length - i)                             *)
movingAverage(safe, history) ==
    LET recentPoints == SubSeq(history, Max(1, Len(history) - 4), Len(history))
        m == Len(recentPoints)
        idx == {i \in 1..m : i <= m - 1 /\ i >= Max(1, m - 3)}
        wt == [i \in 1..m |-> IF i \in idx THEN 5000 \div (m + 1 - i) ELSE 0]
        count == 10000 + SumTo(wt, m)
        avgX == safe.x * 10000 + SumTo([i \in 1..m |-> recentPoints[i].x * wt[i]], m)
        avgY == safe.y * 10000 + SumTo([i \in 1..m |-> recentPoints[i].y * wt[i]], m)
    IN  IF m >= 3 THEN Pt(avgX \div count, avgY \div count) ELSE safe

adaptive(lastFiltered, history, rawX, rawY, timestamp) ==
    LET deltaX == rawX - lastFiltered.x
        deltaY == rawY - lastFiltered.y
        dt == Max(16, timestamp - lastFiltered.time)
        distance2 == hypot2(deltaX, deltaY)
        distance == sqrt(distance2)
        velocity == (distance * 1000) \div (dt * PX)
        alpha == smoothingAlpha(distance, velocity)
        safe == Pt(lastFiltered.x + (alpha * deltaX) \div 1000,
                   lastFiltered.y + (alpha * deltaY) \div 1000)
    IN  IF isExtremeSaccade(distance2, dt) THEN Pt(rawX, rawY)
        ELSE IF fasterThan(distance2, dt, 3)
             THEN movingAverage(safe, history)
             ELSE safe

Result(out, history, smoothed) == [out |-> out, history |-> history, smoothed |-> smoothed]
(* Accept recording the time of the oldest sample of the history *)
AcceptAtOldest(out, history, timestamp) ==
    Result(out, history, <<Sample(out.x, out.y, history[1].time)>>)
Accept(out, history, timestamp) ==
    Result(out, history, <<Sample(out.x, out.y, timestamp)>>)

computeFilteredGazePoint(history0, smoothed, rawX, rawY, timestamp) ==
    IF ~isFinite(rawX) \/ ~isFinite(rawY)
    THEN Result(Pt(rawX, rawY), history0, smoothed)
    ELSE IF isOutlier(history0, rawX, rawY)
    THEN Result(IF smoothed # <<>> THEN Pt(smoothed[1].x, smoothed[1].y)
                ELSE Pt(history0[Len(history0)].x, history0[Len(history0)].y),
                history0, smoothed)
    ELSE LET history == pushSample(history0, rawX, rawY, timestamp)
             fix == fixation(windowPoints(history, timestamp), timestamp)
         IN  IF smoothed # <<>> /\ timestamp - smoothed[1].time > GAZE_HISTORY_MS
             THEN Accept(Pt(rawX, rawY), history, timestamp)
             ELSE IF fix # <<>>
             THEN Accept(stabilize(smoothed, fix[1]), history, timestamp)
             ELSE IF smoothed = <<>>
             THEN Accept(Pt(rawX, rawY), history, timestamp)
             ELSE Accept(adaptive(smoothed[1], history, rawX, rawY, timestamp),
                         history, timestamp)

----------------------------------------------------------------------------
(* PhoneticWheel: constants and tables *)

CENTER_INDEX == 8
SOUTH_INDEX == 4
LETTER_ZONE_ORDER == <<7, 0, 1, 2, 3, 5, 6>>
DWELL_TIME == 1500
COOLDOWN_TIME == 1000
SNAP_DISTANCE_RATIO == 110
EXIT_DISTANCE_RATIO == 135
ZONE_NAMES == <<"North", "Northeast", "East", "Southeast", "South", "Southwest",
                "West", "Northwest", "Center">>
ZoneIndices == 0..(Len(ZONE_NAMES) - 1)

(* ALPHABETS[language].zones[i].letters; zones[i] is at position i + 1 *)
ALPHABETS ==
    [english |-> << <<"A", "B", "C", "D", "9">>,
                    <<"E", "F", "G", "H", "8">>,
                    <<"I", "J", "K", "L", "7">>,
                    <<"M", "N", "O", "P", "6">>,
                    <<>>,
                    <<"Q", "R", "S", "T", "5", "4">>,
                    <<"U", "V", "W", "0", "1", "2", "3">>,
                    <<"X", "Y", "Z", ".", "?", "!">> >>,
     spanish |-> << <<"A", "B", "C", "CH", "9">>,
                    <<"D", "E", "F", "G", "8", "3">>,
                    <<"H", "I", "J", "K", "7">>,
                    <<"L", "LL", "M", "N", "NN", "6">>,
                    <<>>,
                    <<"O", "P", "Q", "R", "RR", "5", "4">>,
                    <<"S", "T", "U", "V", "0", "1", "2">>,
                    <<"W", "X", "Y", "Z", ".", "?", "!">> >>]

(* alphabet.zones[index]?.letters, the empty list where there is no zone *)
zoneLetters(lang, index) ==
    IF index >= 0 /\ index < Len(ALPHABETS[lang]) THEN ALPHABETS[lang][index + 1] ELSE <<>>

activeLetters(lang, selected) ==
    IF selected = NULL THEN <<>> ELSE zoneLetters(lang, selected)

(* the zones that carry a letter at Letter level, and the letter of each *)
letterSlots(lang, selected) ==
    1..Min(Len(activeLetters(lang, selected)), Len(LETTER_ZONE_ORDER))
(* letterAssignments handing the letters out clockwise from North *)
letterAssignmentsClockwise(lang, selected) ==
    [z \in {i - 1 : i \in letterSlots(lang, selected)} |->
        activeLetters(lang, selected)[z + 1]]

letterAssignments(lang, selected) ==
    [z \in {LETTER_ZONE_ORDER[i] : i \in letterSlots(lang, selected)} |->
        activeLetters(lang, selected)[CHOOSE i \in letterSlots(lang, selected) :
                                         LETTER_ZONE_ORDER[i] = z]]

isZoneInteractive(index, level, lang, selected) ==
    IF index = CENTER_INDEX \/ index = SOUTH_INDEX THEN TRUE
    ELSE IF level = "group" THEN Len(zoneLetters(lang, index)) > 0
    ELSE index \in DOMAIN letterAssignments(lang, selected)

----------------------------------------------------------------------------
(* The page layout the wheel measures with getBoundingClientRect: a 3 x 3   *)
(* grid of square cells in compass arrangement inside the container.        *)

CELL_PX == 40
GAP_PX == 10
ORIGIN_PX == 100

zoneColumn(index) == <<1, 2, 2, 2, 1, 0, 0, 0, 1>>[index + 1]
zoneRow(index) == <<0, 0, 1, 2, 2, 2, 1, 0, 1>>[index + 1]

zoneRect(index) ==
    LET left == (containerOrigin + zoneColumn(index) * (CELL_PX + GAP_PX)) * PX
        top == (containerOrigin + zoneRow(index) * (CELL_PX + GAP_PX)) * PX
    IN  [left |-> left, top |-> top, right |-> left + CELL_PX * PX,
         bottom |-> top + CELL_PX * PX, width |-> CELL_PX * PX, height |-> CELL_PX * PX]

containerRect ==
    [left |-> containerOrigin * PX, top |-> containerOrigin * PX,
     width |-> (3 * CELL_PX + 2 * GAP_PX) * PX, height |-> (3 * CELL_PX + 2 * GAP_PX) * PX]

----------------------------------------------------------------------------
(* PhoneticWheel: the component state as a record, and its props *)

WheelState(level, hovered, selected, dwellStart, progress, relGaze, cooldown, raf, due) ==
    [selectionLevel |-> level, hoveredZone |-> hovered, selectedZone |-> selected,
     dwellStartTime |-> dwellStart, dwellProgress |-> progress, relativeGaze |-> relGaze,
     cooldownUntil |-> cooldown, rafRef |-> raf, frameDue |-> due]

(* useState initial values *)
WheelInitial == WheelState("group", NULL, NULL, NULL, 0, <<>>, 0, FALSE, FALSE)

wheelNow ==
    WheelState(selectionLevel, hoveredZone, selectedZone, dwellStartTime, dwellProgress,
               relativeGaze, cooldownUntil, rafRef, frameDue)

(* EyeTalkApp: isWheelActive, fallbackGazeX, fallbackGazeY, language *)
WheelProps(st, gd, lang) ==
    [isTracking |-> (st = "active"),
     gazeX |-> IF gd = <<>> THEN 0 ELSE gd[1].x,
     gazeY |-> IF gd = <<>> THEN 0 ELSE gd[1].y,
     language |-> lang]

propsNow == WheelProps(status, gazeData, language)

(* the four setters every early return of the gaze effect calls *)
clearHover(w) ==
    [w EXCEPT !.hoveredZone = NULL, !.relativeGaze = <<>>, !.dwellStartTime = NULL,
              !.dwellProgress = 0]

(* distance / radius of a is less than that of b *)
lessNormalized(d2a, ra, d2b, rb) ==
    IF ra = rb THEN d2a < d2b ELSE d2a * rb * rb < d2b * ra * ra

(* distance / radius > ratio / 100 *)
exceedsRatio(d2, radius, ratio) ==
    LET g == gcd(100, ratio)
        l == 100 \div g
        r == ratio \div g
    IN  d2 * l * l > r * r * radius * radius

(* considerZone with a rectangle that leaves its edge out *)
considerZoneStrict(c, index, gazeX, gazeY) ==
    LET zoneRect_ == zoneRect(index)
        inside == /\ gazeX > zoneRect_.left /\ gazeX < zoneRect_.right
                  /\ gazeY > zoneRect_.top /\ gazeY < zoneRect_.bottom
        centerX == zoneRect_.left + zoneRect_.width \div 2
        centerY == zoneRect_.top + zoneRect_.height \div 2
        d2 == hypot2(gazeX - centerX, gazeY - centerY)
        radius == Min(zoneRect_.width, zoneRect_.height) \div 2
        nearer == /\ radius > 0
                  /\ (c.zone = NULL \/ lessNormalized(d2, radius, c.d2, c.radius))
        this == [zone |-> index, d2 |-> d2, radius |-> radius, inside |-> inside]
    IN  IF inside
        THEN IF ~c.inside \/ nearer THEN this ELSE c
        ELSE IF c.inside THEN c
        ELSE IF nearer THEN this ELSE c

(* one turn of interactiveIndices.forEach: c is the candidate so far *)
NoCandidate == [zone |-> NULL, d2 |-> 0, radius |-> 0, inside |-> FALSE]
considerZone(c, index, gazeX, gazeY) ==
    LET zoneRect_ == zoneRect(index)
        inside == /\ gazeX >= zoneRect_.left /\ gazeX <= zoneRect_.right
                  /\ gazeY >= zoneRect_.top /\ gazeY <= zoneRect_.bottom
        centerX == zoneRect_.left + zoneRect_.width \div 2
        centerY == zoneRect_.top + zoneRect_.height \div 2
        d2 == hypot2(gazeX - centerX, gazeY - centerY)
        radius == Min(zoneRect_.width, zoneRect_.height) \div 2
        nearer == /\ radius > 0
                  /\ (c.zone = NULL \/ lessNormalized(d2, radius, c.d2, c.radius))
        this == [zone |-> index, d2 |-> d2, radius |-> radius, inside |-> inside]
    IN  IF inside
        THEN IF ~c.inside \/ nearer THEN this ELSE c
        ELSE IF c.inside THEN c
        ELSE IF nearer THEN this ELSE c

RECURSIVE pickCandidate(_, _, _, _, _)
pickCandidate(c, index, w, props, last) ==
    IF index > last THEN c
    ELSE The({pickCandidate(next, index + 1, w, props, last) :
                next \in {IF isZoneInteractive(index, w.selectionLevel, props.language,
                                               w.selectedZone)
                          THEN considerZone(c, index, props.gazeX, props.gazeY)
                          ELSE c}})

(* candidateZone without a tolerance *)
candidateZoneNoTolerance(w, props) ==
    pickCandidate(NoCandidate, 0, w, props, Len(ZONE_NAMES) - 1).zone

(* candidateZone with the snap tolerance for every zone *)
candidateZoneSnapOnly(w, props) ==
    The({IF c.zone # NULL /\ ~c.inside /\ exceedsRatio(c.d2, c.radius, SNAP_DISTANCE_RATIO)
         THEN NULL ELSE c.zone :
        c \in {pickCandidate(NoCandidate, 0, w, props, Len(ZONE_NAMES) - 1)}})

(* the candidate after the snap / exit tolerance *)
candidateZone(w, props) ==
    The({LET tolerance == IF c.zone = w.hoveredZone THEN EXIT_DISTANCE_RATIO
                          ELSE SNAP_DISTANCE_RATIO
         IN  IF c.zone # NULL /\ ~c.inside /\ exceedsRatio(c.d2, c.radius, tolerance)
             THEN NULL ELSE c.zone :
            c \in {pickCandidate(NoCandidate, 0, w, props, Len(ZONE_NAMES) - 1)}})

(* hoverCandidate keeping the dwell start across a change of zone *)
hoverCandidateCoasting(w, props, t) ==
    LET relX == props.gazeX - containerRect.left
        relY == props.gazeY - containerRect.top
        located == [w EXCEPT !.relativeGaze = <<Pt(relX, relY)>>]
    IN  IF relX < 0 \/ relY < 0 \/ relX > containerRect.width
           \/ relY > containerRect.height
        THEN clearHover(w)
        ELSE The({IF candidate # NULL
                  THEN IF w.dwellStartTime = NULL
                       THEN [located EXCEPT !.hoveredZone = candidate, !.dwellStartTime = t]
                       ELSE [located EXCEPT !.hoveredZone = candidate]
                  ELSE [located EXCEPT !.hoveredZone = NULL, !.dwellStartTime = NULL,
                                       !.dwellProgress = 0] :
                 candidate \in {candidateZone(w, props)}})

(* hoverCandidate leaving the hover state alone outside the container *)
hoverCandidateUnbounded(w, props, t) ==
    LET relX == props.gazeX - containerRect.left
        relY == props.gazeY - containerRect.top
        located == [w EXCEPT !.relativeGaze = <<Pt(relX, relY)>>]
    IN  The({IF candidate # NULL
             THEN IF candidate # w.hoveredZone
                  THEN [located EXCEPT !.hoveredZone = candidate,
                                       !.dwellStartTime = t, !.dwellProgress = 0]
                  ELSE IF w.dwellStartTime = NULL
                  THEN [located EXCEPT !.dwellStartTime = t]
                  ELSE located
             ELSE IF relX < 0 \/ relY < 0 \/ relX > containerRect.width
                     \/ relY > containerRect.height
             THEN located
             ELSE [located EXCEPT !.hoveredZone = NULL, !.dwellStartTime = NULL,
                                  !.dwellProgress = 0] :
            candidate \in {candidateZone(w, props)}})

(* the gaze effect past its guards: the pointer against the container and  *)
(* the candidate zone                                                       *)
hoverCandidate(w, props, t) ==
    LET relX == props.gazeX - containerRect.left
        relY == props.gazeY - containerRect.top
        located == [w EXCEPT !.relativeGaze = <<Pt(relX, relY)>>]
    IN  IF relX < 0 \/ relY < 0 \/ relX > containerRect.width
           \/ relY > containerRect.height
        THEN clearHover(w)
        ELSE The({IF candidate # NULL
                  THEN IF candidate # w.hoveredZone
                       THEN [located EXCEPT !.hoveredZone = candidate,
                                            !.dwellStartTime = t, !.dwellProgress = 0]
                       ELSE IF w.dwellStartTime = NULL
                       THEN [located EXCEPT !.dwellStartTime = t]
                       ELSE located
                  ELSE [located EXCEPT !.hoveredZone = NULL, !.dwellStartTime = NULL,
                                       !.dwellProgress = 0] :
                 candidate \in {candidateZone(w, props)}})

(* gazeEffect without its cooldown guard *)
gazeEffectIgnoringCooldown(w, props, t) ==
    IF ~props.isTracking THEN clearHover(w) ELSE hoverCandidate(w, props, t)

(* gazeEffect without its isTracking guard *)
gazeEffectIgnoringTracking(w, props, t) ==
    IF t < w.cooldownUntil THEN clearHover(w) ELSE hoverCandidate(w, props, t)

(* the gaze effect: the state its setters leave, run at time t *)
gazeEffect(w, props, t) ==
    IF ~props.isTracking THEN clearHover(w)
    ELSE IF t < w.cooldownUntil THEN clearHover(w)
    ELSE hoverCandidate(w, props, t)

gazeEffectDeps(w, props) ==
    <<w.cooldownUntil, props.gazeX, props.gazeY, w.hoveredZone, props.isTracking,
      props.language, w.selectionLevel, w.selectedZone, w.dwellStartTime>>

(* dwellEffect without cancelAnimationFrame *)
dwellEffectNoCancel(w, rendered) ==
    IF rendered.hoveredZone = NULL \/ rendered.dwellStartTime = NULL
    THEN [w EXCEPT !.dwellProgress = 0]
    ELSE [w EXCEPT !.rafRef = TRUE]

(* the dwell effect: cancels the pending frame and requests a new one while *)
(* a zone is hovered                                                        *)
dwellEffect(w, rendered) ==
    IF rendered.hoveredZone = NULL \/ rendered.dwellStartTime = NULL
    THEN [w EXCEPT !.dwellProgress = 0, !.rafRef = FALSE, !.frameDue = FALSE]
    ELSE [w EXCEPT !.rafRef = TRUE]

dwellEffectDeps(w, props) ==
    <<w.cooldownUntil, w.dwellStartTime, w.hoveredZone, props.language,
      w.selectionLevel, w.selectedZone>>

(* React: after a render whose dependencies differ from the previous        *)
(* render's, the effects run with the values of that render; their setters  *)
(* cause the next render, until nothing changes.                            *)
RECURSIVE renderWheel(_, _, _, _, _, _)
renderWheel(prevW, prevProps, w, props, t, mounting) ==
    The({The({IF afterDwell = w THEN w
              ELSE renderWheel(w, props, afterDwell, props, t, FALSE) :
             afterDwell \in
                {IF mounting \/ dwellEffectDeps(w, props) # dwellEffectDeps(prevW, prevProps)
                 THEN dwellEffect(afterGaze, w) ELSE afterGaze}}) :
        afterGaze \in
            {IF mounting \/ gazeEffectDeps(w, props) # gazeEffectDeps(prevW, prevProps)
             THEN gazeEffect(w, props, t) ELSE w}})

----------------------------------------------------------------------------
(* PhoneticWheel: handleZoneActivation *)

Activation(w, events, zone) == [w |-> w, events |-> events, committed |-> zone]
OnSubmit == [kind |-> "submit", sound |-> ""]
OnSelection(sound) == [kind |-> "selection", sound |-> sound]

(* commit without setCooldownUntil *)
commitNoCooldown(w, t) ==
    [w EXCEPT !.hoveredZone = NULL, !.dwellStartTime = NULL, !.dwellProgress = 0,
              !.relativeGaze = <<>>]

commit(w, t) ==
    [w EXCEPT !.cooldownUntil = t + COOLDOWN_TIME, !.hoveredZone = NULL,
              !.dwellStartTime = NULL, !.dwellProgress = 0, !.relativeGaze = <<>>]

(* resetSelection leaving the level in place *)
resetSelectionKeepLevel(w) == [w EXCEPT !.selectedZone = NULL]

(* resetSelection leaving the chosen group in place *)
resetSelectionKeepGroup(w) == [w EXCEPT !.selectionLevel = "group"]

resetSelection(w) == [w EXCEPT !.selectionLevel = "group", !.selectedZone = NULL]

(* handleZoneActivation committing a Letter-level zone that has no letter *)
handleZoneActivationUnassigned(w, props, zoneIndex, t) ==
    LET assigned == letterAssignments(props.language, w.selectedZone)
    IN  IF zoneIndex = NULL THEN Activation(w, <<>>, <<>>)
        ELSE IF w.selectionLevel = "group"
        THEN IF zoneIndex = CENTER_INDEX
             THEN Activation(commit(resetSelection(w), t), <<OnSubmit>>, <<zoneIndex>>)
             ELSE IF zoneIndex = SOUTH_INDEX
             THEN Activation(commit(w, t), <<OnSelection("DELETE")>>, <<zoneIndex>>)
             ELSE IF Len(zoneLetters(props.language, zoneIndex)) > 0
             THEN Activation(commit([w EXCEPT !.selectedZone = zoneIndex,
                                              !.selectionLevel = "letter"], t),
                             <<>>, <<zoneIndex>>)
             ELSE Activation(w, <<>>, <<>>)
        ELSE IF zoneIndex = CENTER_INDEX
        THEN Activation(commit(resetSelection(w), t), <<OnSelection(" ")>>, <<zoneIndex>>)
        ELSE IF zoneIndex = SOUTH_INDEX
        THEN Activation(commit(resetSelection(w), t), <<>>, <<zoneIndex>>)
        ELSE IF zoneIndex \in DOMAIN assigned
        THEN Activation(commit(resetSelection(w), t), <<OnSelection(assigned[zoneIndex])>>,
                        <<zoneIndex>>)
        ELSE Activation(commit(resetSelection(w), t), <<>>, <<zoneIndex>>)

handleZoneActivation(w, props, zoneIndex, t) ==
    LET assigned == letterAssignments(props.language, w.selectedZone)
    IN  IF zoneIndex = NULL THEN Activation(w, <<>>, <<>>)
        ELSE IF w.selectionLevel = "group"
        THEN IF zoneIndex = CENTER_INDEX
             THEN Activation(commit(resetSelection(w), t), <<OnSubmit>>, <<zoneIndex>>)
             ELSE IF zoneIndex = SOUTH_INDEX
             THEN Activation(commit(w, t), <<OnSelection("DELETE")>>, <<zoneIndex>>)
             ELSE IF Len(zoneLetters(props.language, zoneIndex)) > 0
             THEN Activation(commit([w EXCEPT !.selectedZone = zoneIndex,
                                              !.selectionLevel = "letter"], t),
                             <<>>, <<zoneIndex>>)
             ELSE Activation(w, <<>>, <<>>)
        ELSE IF zoneIndex = CENTER_INDEX
        THEN Activation(commit(resetSelection(w), t), <<OnSelection(" ")>>, <<zoneIndex>>)
        ELSE IF zoneIndex = SOUTH_INDEX
        THEN Activation(commit(resetSelection(w), t), <<>>, <<zoneIndex>>)
        ELSE IF zoneIndex \in DOMAIN assigned
        THEN Activation(commit(resetSelection(w), t), <<OnSelection(assigned[zoneIndex])>>,
                        <<zoneIndex>>)
        ELSE Activation(w, <<>>, <<>>)

(* tick with the threshold compared strictly *)
tickAfterThreshold(w, props, t) ==
    IF t < w.cooldownUntil
    THEN Activation([w EXCEPT !.dwellProgress = 0, !.rafRef = FALSE, !.frameDue = FALSE],
                    <<>>, <<>>)
    ELSE IF t - w.dwellStartTime > DWELL_TIME
    THEN LET a == handleZoneActivation(w, props, w.hoveredZone, t)
         IN  Activation([a.w EXCEPT !.rafRef = FALSE, !.frameDue = FALSE],
                        a.events, a.committed)
    ELSE Activation([w EXCEPT !.dwellProgress =
                                  Min(1000, ((t - w.dwellStartTime) * 1000) \div DWELL_TIME),
                              !.frameDue = FALSE],
                    <<>>, <<>>)

(* the animation-frame callback of the dwell effect *)
tick(w, props, t) ==
    IF t < w.cooldownUntil
    THEN Activation([w EXCEPT !.dwellProgress = 0, !.rafRef = FALSE, !.frameDue = FALSE],
                    <<>>, <<>>)
    ELSE IF t - w.dwellStartTime >= DWELL_TIME
    THEN LET a == handleZoneActivation(w, props, w.hoveredZone, t)
         IN  Activation([a.w EXCEPT !.rafRef = FALSE, !.frameDue = FALSE],
                        a.events, a.committed)
    ELSE Activation([w EXCEPT !.dwellProgress =
                                  Min(1000, ((t - w.dwellStartTime) * 1000) \div DWELL_TIME),
                              !.frameDue = FALSE],
                    <<>>, <<>>)

----------------------------------------------------------------------------
(* The state after construction: the hook's useState / useRef initial values, *)
(* the wheel mounted with tracking off.                                       *)

Epoch == 1000

Init ==
    /\ now = Epoch
    /\ status = "inactive"
    /\ error = ""
    /\ isManuallyStopped = TRUE
    /\ hasCalibrated = FALSE
    /\ restarting = FALSE
    /\ restartTimer = NULL
    /\ healthInterval = NULL
    /\ lastResult = NULL
    /\ gazeHistory = <<>>
    /\ smoothedPoint = <<>>
    /\ gazeData = <<>>
    /\ showCalibration = FALSE
    /\ listener = FALSE
    /\ began = FALSE
    /\ paused = FALSE
    /\ pendingBegin = 0
    /\ language = "english"
    /\ selectionLevel = "group"
    /\ hoveredZone = NULL
    /\ selectedZone = NULL
    /\ dwellStartTime = NULL
    /\ dwellProgress = 0
    /\ relativeGaze = <<>>
    /\ cooldownUntil = 0
    /\ rafRef = FALSE
    /\ frameDue = FALSE
    /\ containerOrigin = ORIGIN_PX
    /\ lastAction = "init"
    /\ rawIn = <<>>
    /\ filterOut = <<>>
    /\ emitted = <<>>
    /\ calls = <<>>
    /\ committed = <<>>
    /\ lastCommit = NULL
    /\ commitGap = NULL
    /\ fresh = TRUE
    /\ fed = 0
    /\ starts = 0
    /\ stopRequested = FALSE
    /\ cipherIn = <<>>
    /\ cipherKey = <<>>
    /\ cipherOut = <<>>
    /\ cipherBack = <<>>

----------------------------------------------------------------------------
(* The application: one action per handler, timer or callback.  Each ends   *)
(* with React's render: the health-check effect of the hook and the effects *)
(* of the wheel.                                                            *)

MaxTime == 30000

(* resetSmoothingState forgotten *)
keepSmoothingState == UNCHANGED filterVars

(* resetSmoothingState clearing the smoothed point and keeping the history *)
resetSmoothedPointOnly ==
    /\ gazeHistory' = gazeHistory
    /\ smoothedPoint' = <<>>

resetSmoothingState ==
    /\ gazeHistory' = <<>>
    /\ smoothedPoint' = <<>>
MaxStarts == 1

SetWheel(rendered) ==
    \E w \in {rendered} :
    /\ selectionLevel' = w.selectionLevel
    /\ hoveredZone' = w.hoveredZone
    /\ selectedZone' = w.selectedZone
    /\ dwellStartTime' = w.dwellStartTime
    /\ dwellProgress' = w.dwellProgress
    /\ relativeGaze' = w.relativeGaze
    /\ cooldownUntil' = w.cooldownUntil
    /\ rafRef' = w.rafRef
    /\ frameDue' = w.frameDue

(* EyeTalkApp renders the calibration overlay instead of the wheel while    *)
(* the hook provides one; the wheel is mounted anew afterwards.             *)
wheelAfter(w, st, gd, lang, overlay, t) ==
    IF overlay THEN WheelInitial
    ELSE IF showCalibration
    THEN renderWheel(WheelInitial, WheelProps(st, gd, lang),
                     WheelInitial, WheelProps(st, gd, lang), t, TRUE)
    ELSE The({renderWheel(wheelNow, propsNow, set, WheelProps(st, gd, lang), t, FALSE) :
                set \in {w}})

(* the health-check effect, which runs when the status has changed *)
healthEffect(st, interval, stopped, calibrated, t) ==
    IF st = status THEN interval
    ELSE IF ~stopped /\ calibrated /\ st \notin {"inactive", "denied", "error"}
    THEN t + HEALTH_CHECK_INTERVAL
    ELSE NULL

Obs(name, raw, out, events, trackerCalls, zone) ==
    /\ lastAction' = name
    /\ rawIn' = raw
    /\ filterOut' = out
    /\ emitted' = events
    /\ calls' = trackerCalls
    /\ committed' = zone
    /\ lastCommit' = IF zone # <<>> THEN now ELSE lastCommit
    /\ commitGap' = IF zone # <<>> /\ lastCommit # NULL
                    THEN Min(now - lastCommit, COOLDOWN_TIME) ELSE NULL
    /\ fed' = fed + Len(out)
    /\ starts' = starts + (IF name = "startTracking" THEN 1 ELSE 0)
    /\ stopRequested' = IF name = "stopTracking" THEN TRUE
                        ELSE IF name = "startTracking" THEN FALSE ELSE stopRequested
    /\ UNCHANGED <<cryptoVars, layoutVars>>

(* Failed without clearRestartTimer and without resetting restartingRef *)
FailedKeepingRestart(st, msg, gd, listening, running, pending, overlay, trackerCalls, name) ==
    /\ status' = st
    /\ error' = msg
    /\ isManuallyStopped' = TRUE
    /\ lastResult' = NULL
    /\ healthInterval' = NULL
    /\ resetSmoothingState
    /\ gazeData' = gd
    /\ listener' = listening
    /\ began' = running
    /\ pendingBegin' = pending
    /\ showCalibration' = overlay
    /\ SetWheel(wheelAfter(wheelNow, st, gd, language, overlay, now))
    /\ Obs(name, <<>>, <<>>, <<>>, trackerCalls, <<>>)
    /\ UNCHANGED <<now, hasCalibrated, paused, language, fresh, restarting, restartTimer>>

(* handleError and handleCameraDenied leave the same hook state but for the *)
(* status, the gaze data and the listener                                   *)
Failed(st, msg, gd, listening, running, pending, overlay, trackerCalls, name) ==
    /\ status' = st
    /\ error' = msg
    /\ isManuallyStopped' = TRUE
    /\ restarting' = FALSE
    /\ lastResult' = NULL
    /\ restartTimer' = NULL
    /\ healthInterval' = NULL
    /\ resetSmoothingState
    /\ gazeData' = gd
    /\ listener' = listening
    /\ began' = running
    /\ pendingBegin' = pending
    /\ showCalibration' = overlay
    /\ SetWheel(wheelAfter(wheelNow, st, gd, language, overlay, now))
    /\ Obs(name, <<>>, <<>>, <<>>, trackerCalls, <<>>)
    /\ UNCHANGED <<now, hasCalibrated, paused, language, fresh>>

(* the Start button, shown while the status is neither active nor           *)
(* reconnecting; threw: configuring the tracker throws                      *)
startTracking(threw) ==
    /\ ~showCalibration
    /\ status \notin {"active", "reconnecting"}
    /\ starts < MaxStarts
    /\ IF threw
       THEN Failed("error", "failed", gazeData, TRUE, began, pendingBegin,
                   IF hasCalibrated THEN showCalibration ELSE TRUE,
                   <<"setGazeListener">>, "startTracking")
       ELSE LET st == IF hasCalibrated THEN "reconnecting" ELSE "calibrating"
                overlay == IF hasCalibrated THEN showCalibration ELSE TRUE
            IN  /\ status' = st
                /\ error' = ""
                /\ isManuallyStopped' = FALSE
                /\ restarting' = FALSE
                /\ restartTimer' = NULL
                /\ lastResult' = now
                /\ resetSmoothingState
                /\ showCalibration' = overlay
                /\ healthInterval' = healthEffect(st, healthInterval, FALSE, hasCalibrated, now)
                /\ listener' = TRUE
                /\ paused' = FALSE
                /\ pendingBegin' = pendingBegin + 1
                /\ SetWheel(wheelAfter(wheelNow, st, gazeData, language, overlay, now))
                /\ Obs("startTracking", <<>>, <<>>, <<>>, <<"setGazeListener", "begin">>, <<>>)
                /\ fresh' = TRUE
                /\ UNCHANGED <<now, hasCalibrated, gazeData, language, began>>

(* stopTracking without clearRestartTimer *)
stopTrackingKeepingTimer ==
    /\ ~showCalibration
    /\ status \in {"active", "reconnecting"}
    /\ status' = "inactive"
    /\ isManuallyStopped' = TRUE
    /\ restarting' = FALSE
    /\ lastResult' = NULL
    /\ gazeData' = <<>>
    /\ restartTimer' = restartTimer
    /\ healthInterval' = NULL
    /\ resetSmoothingState
    /\ listener' = FALSE
    /\ began' = FALSE
    /\ SetWheel(wheelAfter(wheelNow, "inactive", <<>>, language, showCalibration, now))
    /\ Obs("stopTracking", <<>>, <<>>, <<>>,
           <<"clearGazeListener", "end">>
               \o (IF rafRef THEN <<"cancelAnimationFrame">> ELSE <<>>), <<>>)
    /\ UNCHANGED <<now, error, hasCalibrated, showCalibration, paused, pendingBegin,
                   language, fresh>>

(* the Stop button, shown while the status is active or reconnecting *)
stopTracking ==
    /\ ~showCalibration
    /\ status \in {"active", "reconnecting"}
    /\ status' = "inactive"
    /\ isManuallyStopped' = TRUE
    /\ restarting' = FALSE
    /\ lastResult' = NULL
    /\ gazeData' = <<>>
    /\ restartTimer' = NULL
    /\ healthInterval' = NULL
    /\ resetSmoothingState
    /\ listener' = FALSE
    /\ began' = FALSE
    /\ SetWheel(wheelAfter(wheelNow, "inactive", <<>>, language, showCalibration, now))
    /\ Obs("stopTracking", <<>>, <<>>, <<>>,
           <<"clearGazeListener", "end">>
               \o (IF rafRef THEN <<"cancelAnimationFrame">> ELSE <<>>), <<>>)
    /\ UNCHANGED <<now, error, hasCalibrated, showCalibration, paused, pendingBegin,
                   language, fresh>>

(* begin() resolves *)
beginResolved ==
    /\ pendingBegin > 0
    /\ pendingBegin' = pendingBegin - 1
    /\ began' = TRUE
    /\ LET st == IF hasCalibrated THEN "active" ELSE status
       IN  /\ status' = st
           /\ healthInterval' = healthEffect(st, healthInterval, isManuallyStopped,
                                             hasCalibrated, now)
           /\ SetWheel(wheelAfter(wheelNow, st, gazeData, language, showCalibration, now))
    /\ Obs("beginResolved", <<>>, <<>>, <<>>, <<>>, <<>>)
    /\ UNCHANGED <<now, error, isManuallyStopped, hasCalibrated, restarting, restartTimer,
                   lastResult, filterVars, gazeData, showCalibration, listener, paused,
                   language, fresh>>

(* begin() rejects: NotAllowedError to handleCameraDenied, else handleError *)
beginRejected(notAllowed) ==
    /\ pendingBegin > 0
    /\ IF notAllowed
       THEN Failed("denied", "denied", <<>>, FALSE, FALSE, pendingBegin - 1, showCalibration,
                   <<"clearGazeListener", "end">>, "handleCameraDenied")
       ELSE Failed("error", "failed", gazeData, listener, began, pendingBegin - 1,
                   showCalibration,
                   <<>>, "handleError")

(* the calibration overlay calls onComplete: handleCalibrationDone *)
handleCalibrationDone ==
    /\ showCalibration
    /\ hasCalibrated' = TRUE
    /\ showCalibration' = FALSE
    /\ resetSmoothingState
    /\ lastResult' = now
    /\ status' = "active"
    /\ healthInterval' = healthEffect("active", healthInterval, isManuallyStopped, TRUE, now)
    /\ SetWheel(wheelAfter(wheelNow, "active", gazeData, language, FALSE, now))
    /\ Obs("handleCalibrationDone", <<>>, <<>>, <<>>, <<>>, <<>>)
    /\ fresh' = TRUE
    /\ UNCHANGED <<now, error, isManuallyStopped, restarting, restartTimer, gazeData,
                   trackerVars, language>>

(* handleGazeData without the test of isManuallyStoppedRef *)
handleGazeDataWhileStopped(prediction) ==
    /\ IF gazeHistory = <<>> THEN TRUE ELSE gazeHistory[Len(gazeHistory)].time < now
    /\ IF \/ prediction = <<>>
          \/ ~isFinite(prediction[1]) \/ ~isFinite(prediction[2])
       THEN /\ Obs("handleGazeData",
                   IF prediction = <<>> THEN <<>>
                   ELSE <<Sample(prediction[1], prediction[2], now)>>,
                   <<>>, <<>>, <<>>, <<>>)
            /\ UNCHANGED <<now, hookVars, filterVars, trackerVars, wheelVars, fresh>>
       ELSE LET r == computeFilteredGazePoint(gazeHistory, smoothedPoint,
                                              prediction[1], prediction[2], now)
                st == IF status \in {"denied", "error", "inactive"} THEN status ELSE "active"
            IN  /\ gazeHistory' = r.history
                /\ smoothedPoint' = r.smoothed
                /\ gazeData' = <<r.out>>
                /\ lastResult' = now
                /\ status' = st
                /\ healthInterval' = healthEffect(st, healthInterval, isManuallyStopped,
                                                  hasCalibrated, now)
                /\ SetWheel(wheelAfter(wheelNow, st, <<r.out>>, language, showCalibration, now))
                /\ Obs("handleGazeData", <<Sample(prediction[1], prediction[2], now)>>,
                       <<r.out>>, <<>>, <<>>, <<>>)
                /\ fresh' = FALSE
                /\ UNCHANGED <<now, error, isManuallyStopped, hasCalibrated, restarting,
                               restartTimer, showCalibration, trackerVars, language>>

(* handleGazeData, the gaze listener; prediction is <<>> for null, else      *)
(* <<x, y>>                                                                  *)
handleGazeData(prediction) ==
    /\ IF gazeHistory = <<>> THEN TRUE ELSE gazeHistory[Len(gazeHistory)].time < now
    /\ IF \/ isManuallyStopped \/ prediction = <<>>
          \/ ~isFinite(prediction[1]) \/ ~isFinite(prediction[2])
       THEN /\ Obs("handleGazeData",
                   IF prediction = <<>> THEN <<>>
                   ELSE <<Sample(prediction[1], prediction[2], now)>>,
                   <<>>, <<>>, <<>>, <<>>)
            /\ UNCHANGED <<now, hookVars, filterVars, trackerVars, wheelVars, fresh>>
       ELSE LET r == computeFilteredGazePoint(gazeHistory, smoothedPoint,
                                              prediction[1], prediction[2], now)
                st == IF status \in {"denied", "error", "inactive"} THEN status ELSE "active"
            IN  /\ gazeHistory' = r.history
                /\ smoothedPoint' = r.smoothed
                /\ gazeData' = <<r.out>>
                /\ lastResult' = now
                /\ status' = st
                /\ healthInterval' = healthEffect(st, healthInterval, isManuallyStopped,
                                                  hasCalibrated, now)
                /\ SetWheel(wheelAfter(wheelNow, st, <<r.out>>, language, showCalibration, now))
                /\ Obs("handleGazeData", <<Sample(prediction[1], prediction[2], now)>>,
                       <<r.out>>, <<>>, <<>>, <<>>)
                /\ fresh' = FALSE
                /\ UNCHANGED <<now, error, isManuallyStopped, hasCalibrated, restarting,
                               restartTimer, showCalibration, trackerVars, language>>

(* the tracker calls the listener it was given with a prediction *)
gazeListener(prediction) ==
    /\ listener /\ began /\ ~paused
    /\ handleGazeData(prediction)

(* a prediction the tracker had under way when the session was stopped: the *)
(* callback runs after clearGazeListener().end()                            *)
lateGazeListener(prediction) ==
    /\ isManuallyStopped
    /\ handleGazeData(prediction)

(* restartTracking: what it leaves of the refs it writes, the status and the *)
(* tracker, and the tracker calls it made                                    *)
Restarted(busy, st, last, timer, isPaused, listening, trackerCalls) ==
    [restarting |-> busy, status |-> st, lastResult |-> last, restartTimer |-> timer,
     paused |-> isPaused, listener |-> listening, calls |-> trackerCalls]

(* restartTracking without the test of restartingRef *)
restartTrackingUnguarded(pauseThrows) ==
    IF isManuallyStopped
    THEN Restarted(restarting, status, lastResult, restartTimer, paused, listener, <<>>)
    ELSE Restarted(TRUE, "reconnecting", now, now + RESTART_DELAY,
                   IF pauseThrows THEN paused ELSE TRUE, TRUE,
                   <<"setGazeListener", "pause">>)

(* pauseThrows: webgazer.pause() throws *)
restartTracking(pauseThrows) ==
    IF isManuallyStopped
    THEN Restarted(restarting, status, lastResult, restartTimer, paused, listener, <<>>)
    ELSE IF restarting
    THEN Restarted(restarting, status, lastResult, restartTimer, paused, TRUE,
                   <<"setGazeListener">>)
    ELSE Restarted(TRUE, "reconnecting", now, now + RESTART_DELAY,
                   IF pauseThrows THEN paused ELSE TRUE, TRUE,
                   <<"setGazeListener", "pause">>)

(* the interval callback of the health-check effect, which calls             *)
(* restartTracking when the last result is too old                           *)
healthCheck(pauseThrows) ==
    /\ healthInterval # NULL
    /\ now >= healthInterval
    /\ IF \/ isManuallyStopped
          \/ lastResult = NULL \/ lastResult = 0
          \/ ~(now - lastResult > AUTO_RESTART_THRESHOLD)
       THEN /\ healthInterval' = healthInterval + HEALTH_CHECK_INTERVAL
            /\ Obs("healthCheck", <<>>, <<>>, <<>>, <<>>, <<>>)
            /\ UNCHANGED <<now, status, error, isManuallyStopped, hasCalibrated, restarting,
                           restartTimer, lastResult, gazeData, showCalibration, filterVars,
                           trackerVars, wheelVars, fresh>>
       ELSE \E r \in {restartTracking(pauseThrows)} :
            /\ restarting' = r.restarting
            /\ status' = r.status
            /\ lastResult' = r.lastResult
            /\ paused' = r.paused
            /\ restartTimer' = r.restartTimer
            /\ listener' = r.listener
            /\ healthInterval' = healthEffect(r.status,
                                              healthInterval + HEALTH_CHECK_INTERVAL,
                                              isManuallyStopped, hasCalibrated, now)
            /\ SetWheel(wheelAfter(wheelNow, r.status, gazeData, language,
                                   showCalibration, now))
            /\ Obs(IF restarting THEN "healthCheck" ELSE "restartTracking",
                   <<>>, <<>>, <<>>, r.calls, <<>>)
            /\ fresh' = IF restarting THEN fresh ELSE TRUE
            /\ UNCHANGED <<now, error, isManuallyStopped, hasCalibrated, gazeData,
                           showCalibration, filterVars, began, pendingBegin, language>>

(* restartTimerFired reporting a throwing resume() as an error *)
restartTimerFailing(resumeThrows) ==
    /\ restartTimer # NULL
    /\ now >= restartTimer
    /\ paused' = IF resumeThrows THEN paused ELSE FALSE
    /\ status' = IF resumeThrows THEN "error" ELSE status
    /\ restarting' = FALSE
    /\ restartTimer' = NULL
    /\ Obs("restartTimer", <<>>, <<>>, <<>>, <<"resume">>, <<>>)
    /\ UNCHANGED <<now, error, isManuallyStopped, hasCalibrated, healthInterval,
                   lastResult, gazeData, showCalibration, filterVars, listener, began,
                   pendingBegin, wheelVars, fresh>>

(* the timeout callback of restartTracking; resumeThrows: resume() throws *)
restartTimerFired(resumeThrows) ==
    /\ restartTimer # NULL
    /\ now >= restartTimer
    /\ paused' = IF resumeThrows THEN paused ELSE FALSE
    /\ restarting' = FALSE
    /\ restartTimer' = NULL
    /\ Obs("restartTimer", <<>>, <<>>, <<>>, <<"resume">>, <<>>)
    /\ UNCHANGED <<now, status, error, isManuallyStopped, hasCalibrated, healthInterval,
                   lastResult, gazeData, showCalibration, filterVars, listener, began,
                   pendingBegin, wheelVars, fresh>>

(* the language select of the session panel *)
setLanguage(lang) ==
    /\ ~showCalibration
    /\ lang # language
    /\ language' = lang
    /\ SetWheel(wheelAfter(wheelNow, status, gazeData, lang, showCalibration, now))
    /\ Obs("setLanguage", <<>>, <<>>, <<>>, <<>>, <<>>)
    /\ UNCHANGED <<now, hookVars, filterVars, trackerVars, fresh>>

(* a wheel handler's result, then the render *)
Activated(name, a) ==
    /\ SetWheel(wheelAfter(a.w, status, gazeData, language, showCalibration, now))
    /\ Obs(name, <<>>, <<>>, a.events, <<>>, a.committed)
    /\ UNCHANGED <<now, hookVars, filterVars, trackerVars, language, fresh>>

NotActivated(name) ==
    /\ Obs(name, <<>>, <<>>, <<>>, <<>>, <<>>)
    /\ UNCHANGED <<now, hookVars, filterVars, trackerVars, wheelVars, fresh>>

(* onClick of a cell *)
handleClick(index) ==
    /\ ~showCalibration
    /\ IF isZoneInteractive(index, selectionLevel, language, selectedZone)
       THEN Activated("handleClick", handleZoneActivation(wheelNow, propsNow, index, now))
       ELSE NotActivated("handleClick")

(* onKeyDown of a cell *)
handleKeyDown(index, key) ==
    /\ ~showCalibration
    /\ IF /\ isZoneInteractive(index, selectionLevel, language, selectedZone)
          /\ key \in {"Enter", " "}
       THEN Activated("handleKeyDown", handleZoneActivation(wheelNow, propsNow, index, now))
       ELSE NotActivated("handleKeyDown")

(* the animation frame the dwell effect requested *)
animationFrame ==
    /\ ~showCalibration
    /\ rafRef /\ frameDue
    /\ Activated("tick", tick(wheelNow, propsNow, now))

(* Time passes, by d at most and not beyond the next timer; pending timers  *)
(* and the pending animation frame run first.                               *)
deadlines ==
    {t \in {restartTimer, healthInterval,
            IF rafRef THEN dwellStartTime + DWELL_TIME ELSE NULL} : t # NULL}

advance(d, horizon) ==
    /\ ~(rafRef /\ frameDue)
    /\ \A t \in {restartTimer, healthInterval} : t = NULL \/ t > now
    /\ now < horizon
    /\ LET next == {t \in deadlines \cup {horizon} : t > now /\ t < now + d}
       IN  now' = IF next = {} THEN now + d
                  ELSE CHOOSE t \in next : \A u \in next : t <= u
    /\ frameDue' = rafRef
    /\ Obs("advance", <<>>, <<>>, <<>>, <<>>, <<>>)
    /\ UNCHANGED <<hookVars, filterVars, trackerVars, language, selectionLevel, hoveredZone,
                   selectedZone, dwellStartTime, dwellProgress, relativeGaze, cooldownUntil,
                   rafRef, fresh>>

----------------------------------------------------------------------------
(* The session: every handler, with the tracker's answers, the user's       *)
(* buttons and the clock as inputs.                                         *)

SessionGaze == {<<120, 120>>, <<220, 220>>}
SessionStep == 30000
MaxSamples == 2

StartTracking == \E threw \in BOOLEAN : startTracking(threw)
StopTracking == stopTracking
BeginResolved == beginResolved
BeginRejected == \E notAllowed \in BOOLEAN : beginRejected(notAllowed)
CalibrationDone == handleCalibrationDone
GazeSample ==
    /\ fed < MaxSamples
    /\ \E c \in SessionGaze : gazeListener(<<c[1] * PX, c[2] * PX>>)
GazeDropped == \E p \in {<<>>, <<NONFINITE, 120 * PX>>} : gazeListener(p)
HealthCheck == \E pauseThrows \in BOOLEAN : healthCheck(pauseThrows)
RestartTimer == \E resumeThrows \in BOOLEAN : restartTimerFired(resumeThrows)
Click == handleClick(CENTER_INDEX)
AnimationFrame == animationFrame
Advance == advance(SessionStep, Epoch + MaxTime)

Next ==
    \/ StartTracking
    \/ StopTracking
    \/ BeginResolved
    \/ BeginRejected
    \/ CalibrationDone
    \/ GazeSample
    \/ GazeDropped
    \/ HealthCheck
    \/ RestartTimer
    \/ Click
    \/ AnimationFrame
    \/ Advance

Spec == Init /\ [][Next]_vars

----------------------------------------------------------------------------
(* The session on a page that scrolls.  The wheel measures its container    *)
(* and its zones in viewport coordinates, the coordinates of the gaze       *)
(* samples, so scrolling the page moves them; no effect of the wheel has    *)
(* the scroll position as a dependency.                                     *)

ScrolledOrigins == {ORIGIN_PX, 0}

scroll(origin) ==
    /\ containerOrigin # origin
    /\ containerOrigin' = origin
    /\ lastAction' = "scroll"
    /\ rawIn' = <<>>
    /\ filterOut' = <<>>
    /\ emitted' = <<>>
    /\ calls' = <<>>
    /\ committed' = <<>>
    /\ UNCHANGED <<now, hookVars, filterVars, trackerVars, wheelVars, lastCommit,
                   commitGap, fresh, fed, starts, stopRequested, cryptoVars>>

Scroll == \E origin \in ScrolledOrigins : scroll(origin)

NextPage ==
    \/ StartTracking
    \/ StopTracking
    \/ BeginResolved
    \/ BeginRejected
    \/ CalibrationDone
    \/ GazeSample
    \/ GazeDropped
    \/ HealthCheck
    \/ RestartTimer
    \/ Click
    \/ AnimationFrame
    \/ Advance
    \/ Scroll

SpecPage == Init /\ [][NextPage]_vars

----------------------------------------------------------------------------
(* The session with a tracker whose prediction loop may still deliver       *)
(* callbacks after the session was stopped.                                 *)

LateSample == \E c \in SessionGaze : lateGazeListener(<<c[1] * PX, c[2] * PX>>)

NextLate ==
    \/ StartTracking
    \/ StopTracking
    \/ BeginResolved
    \/ BeginRejected
    \/ CalibrationDone
    \/ GazeSample
    \/ GazeDropped
    \/ HealthCheck
    \/ RestartTimer
    \/ Click
    \/ AnimationFrame
    \/ Advance
    \/ LateSample

SpecLate == Init /\ [][NextLate]_vars

----------------------------------------------------------------------------
(* The wheel on its own: EyeTalkApp renders it with new props (isTracking,  *)
(* gazeX, gazeY from the hook's status and gaze data), the user clicks or   *)
(* presses keys, frames arrive FramePeriod apart.                           *)

MaxWheelTime == 4500
FramePeriod == 500
WheelGaze == {<<170, 120>>, <<170, 145>>, <<170, 170>>, <<50, 50>>}

(* a render of EyeTalkApp with a new status or new gaze data *)
propsChanged(st, gd) ==
    /\ <<st, gd>> # <<status, gazeData>>
    /\ status' = st
    /\ gazeData' = gd
    /\ SetWheel(wheelAfter(wheelNow, st, gd, language, showCalibration, now))
    /\ Obs("propsChanged", <<>>, <<>>, <<>>, <<>>, <<>>)
    /\ UNCHANGED <<now, error, isManuallyStopped, hasCalibrated, restarting, restartTimer,
                   healthInterval, lastResult, showCalibration, filterVars, trackerVars,
                   language, fresh>>

WheelTracking == \E st \in {"active", "inactive"} : propsChanged(st, gazeData)
WheelPointer ==
    \E c \in WheelGaze : propsChanged(status, <<Pt(c[1] * PX, c[2] * PX)>>)
WheelNoPointer == propsChanged(status, <<>>)
WheelLanguage == \E lang \in DOMAIN ALPHABETS : setLanguage(lang)
(* cells clicked: West (without a letter in a group of five) and Center *)
WheelCells == {6, CENTER_INDEX}
WheelClick == \E index \in WheelCells : handleClick(index)
WheelKeyDown == \E key \in {"Enter", "Tab"} : handleKeyDown(SOUTH_INDEX, key)
WheelFrame == animationFrame
WheelAdvance == advance(FramePeriod, Epoch + MaxWheelTime)

NextWheel ==
    \/ WheelTracking
    \/ WheelPointer
    \/ WheelNoPointer
    \/ WheelLanguage
    \/ WheelClick
    \/ WheelKeyDown
    \/ WheelFrame
    \/ WheelAdvance

SpecWheel == Init /\ [][NextWheel]_vars

----------------------------------------------------------------------------
(* The wheel under the pointer alone: centres of North and Center, three     *)
(* points of the gap between them (nearer North, nearer North but past the   *)
(* snap tolerance, halfway), a corner of North, and a point off the wheel.   *)

MaxPointerTime == 3000
PointerGaze ==
    {<<170, 120>>, <<170, 141>>, <<170, 144>>, <<170, 145>>, <<170, 170>>, <<150, 140>>,
     <<50, 50>>}

PointerMove ==
    \E c \in PointerGaze : propsChanged(status, <<Pt(c[1] * PX, c[2] * PX)>>)
PointerTracking == \E st \in {"active", "inactive"} : propsChanged(st, gazeData)
PointerFrame == animationFrame
PointerAdvance == advance(FramePeriod, Epoch + MaxPointerTime)

NextPointer ==
    \/ PointerMove
    \/ PointerTracking
    \/ PointerFrame
    \/ PointerAdvance

SpecPointer == Init /\ [][NextPointer]_vars

----------------------------------------------------------------------------
(* The wheel in the application by clicks alone: the user clicks North,      *)
(* South and Center, changes the language, starts and stops tracking; the    *)
(* calibration overlay takes the wheel's place and the wheel is mounted anew *)
(* when calibration is done.                                                 *)

LevelCells == {0, SOUTH_INDEX, CENTER_INDEX}
LevelClick == \E index \in LevelCells : handleClick(index)

NextLevel ==
    \/ StartTracking
    \/ BeginResolved
    \/ CalibrationDone
    \/ StopTracking
    \/ WheelLanguage
    \/ LevelClick

SpecLevel == Init /\ [][NextLevel]_vars

----------------------------------------------------------------------------
(* The filter on its own: samples fed straight to computeFilteredGazePoint.  *)

MaxFilterTime == 2600
MaxFed == 9

(* raw sample positions, in pixels: a fixation target and a far point        *)
FilterCoords == {<<500, 500>>, <<900, 500>>}
FilterGaps == {50, 2100}

FilterSample(x, y, dt) ==
    /\ now + dt <= Epoch + MaxFilterTime
    /\ fed < MaxFed
    /\ fed' = fed + 1
    /\ now' = now + dt
    /\ LET r == computeFilteredGazePoint(gazeHistory, smoothedPoint, x, y, now')
       IN  /\ gazeHistory' = r.history
           /\ smoothedPoint' = r.smoothed
           /\ filterOut' = <<r.out>>
    /\ rawIn' = <<Sample(x, y, now')>>
    /\ lastAction' = "computeFilteredGazePoint"
    /\ fresh' = (fresh /\ (~isFinite(x) \/ ~isFinite(y)))
    /\ UNCHANGED <<hookVars, trackerVars, wheelVars, emitted, calls, committed, lastCommit,
                   commitGap, starts, stopRequested, cryptoVars, layoutVars>>

FilterFinite ==
    \E c \in FilterCoords, dt \in FilterGaps : FilterSample(c[1] * PX, c[2] * PX, dt)

FilterNonFinite ==
    \E c \in {<<NONFINITE, 500 * PX>>, <<500 * PX, NONFINITE>>} :
        FilterSample(c[1], c[2], 50)

(* resetSmoothingState *)
FilterReset ==
    /\ gazeHistory # <<>>
    /\ resetSmoothingState
    /\ lastAction' = "resetSmoothingState"
    /\ rawIn' = <<>>
    /\ filterOut' = <<>>
    /\ fresh' = TRUE
    /\ UNCHANGED <<now, fed, hookVars, trackerVars, wheelVars, emitted, calls, committed,
                   lastCommit, commitGap, starts, stopRequested, cryptoVars, layoutVars>>

NextFilter == FilterFinite \/ FilterNonFinite \/ FilterReset

SpecFilter == Init /\ [][NextFilter]_vars

----------------------------------------------------------------------------
(* A fixation: samples clustered around one target, one every FixationGaps,  *)
(* fed to computeFilteredGazePoint from the reset filter of Init.           *)

(* raw sample positions, in pixels: the target and 5 px of jitter either way *)
FixationTarget == <<500, 500>>
FixationCoords == {FixationTarget, <<505, 495>>, <<495, 505>>}
FixationGaps == {50}

FixationSample ==
    \E c \in FixationCoords, dt \in FixationGaps : FilterSample(c[1] * PX, c[2] * PX, dt)

NextFixation == FixationSample

SpecFixation == Init /\ [][NextFixation]_vars

----------------------------------------------------------------------------
(* A moving gaze: samples at two points 60 px apart, one every SaccadeGaps,   *)
(* fed to computeFilteredGazePoint from the reset filter of Init.  A step of *)
(* 60 px in 50 ms is faster than 0.3 x MAX_VELOCITY_PX_PER_S and no outlier. *)

SaccadeCoords == {<<500, 500>>, <<560, 500>>}
SaccadeGaps == {50}

SaccadeSample ==
    \E c \in SaccadeCoords, dt \in SaccadeGaps : FilterSample(c[1] * PX, c[2] * PX, dt)

NextSaccade == SaccadeSample

SpecSaccade == Init /\ [][NextSaccade]_vars


----------------------------------------------------------------------------
(* utils/crypto.  A Uint8Array is a sequence of bytes, a string a sequence   *)
(* of UTF-16 code units, a hex string a sequence of one-character strings.   *)

(* a | b on bytes *)
RECURSIVE orByte(_, _)
orByte(a, b) ==
    IF a = 0 /\ b = 0 THEN 0
    ELSE (IF a % 2 = 1 \/ b % 2 = 1 THEN 1 ELSE 0) + 2 * orByte(a \div 2, b \div 2)

(* a ^ b on bytes, bit by bit *)
RECURSIVE xorByte(_, _)
xorByte(a, b) ==
    IF a = 0 /\ b = 0 THEN 0
    ELSE ((a + b) % 2) + 2 * xorByte(a \div 2, b \div 2)

(* passwordArray[i % passwordArray.length] is undefined for an empty         *)
(* password, and byte ^ undefined is the byte.  A string argument is first   *)
(* converted with fromString, which the callers below do at the call.        *)
xorCipher(dataArray, passwordArray) ==
    [i \in 1..Len(dataArray) |->
        xorByte(dataArray[i],
                IF Len(passwordArray) = 0 THEN 0
                ELSE passwordArray[((i - 1) % Len(passwordArray)) + 1])]

isHighSurrogate(u) == u >= 55296 /\ u <= 56319
isLowSurrogate(u) == u >= 56320 /\ u <= 57343

(* the UTF-8 bytes of a code point, and the UTF-16 code units of one *)
utf8(cp) ==
    IF cp < 128 THEN <<cp>>
    ELSE IF cp < 2048 THEN <<192 + (cp \div 64), 128 + (cp % 64)>>
    ELSE IF cp < 65536
    THEN <<224 + (cp \div 4096), 128 + ((cp \div 64) % 64), 128 + (cp % 64)>>
    ELSE <<240 + (cp \div 262144), 128 + ((cp \div 4096) % 64), 128 + ((cp \div 64) % 64),
           128 + (cp % 64)>>
utf16(cp) ==
    IF cp < 65536 THEN <<cp>>
    ELSE <<55296 + ((cp - 65536) \div 1024), 56320 + ((cp - 65536) % 1024)>>

(* new TextEncoder().encode(str): a surrogate pair is one code point, a lone *)
(* surrogate is encoded as U+FFFD                                            *)
RECURSIVE encodeFrom(_, _)
encodeFrom(str, i) ==
    IF i > Len(str) THEN <<>>
    ELSE IF isHighSurrogate(str[i]) /\ i < Len(str) /\ isLowSurrogate(str[i + 1])
    THEN utf8(65536 + (str[i] - 55296) * 1024 + (str[i + 1] - 56320))
            \o encodeFrom(str, i + 2)
    ELSE IF isHighSurrogate(str[i]) \/ isLowSurrogate(str[i])
    THEN utf8(65533) \o encodeFrom(str, i + 1)
    ELSE utf8(str[i]) \o encodeFrom(str, i + 1)
fromString(str) == encodeFrom(str, 1)

(* new TextDecoder().decode(data): the UTF-8 decoder, replacing every        *)
(* ill-formed sequence by U+FFFD, then dropping a leading byte order mark    *)
RECURSIVE decodeFrom(_, _, _, _, _, _, _)
decodeFrom(data, i, needed, seen, cp, lower, upper) ==
    IF i > Len(data) THEN (IF needed # 0 THEN <<65533>> ELSE <<>>)
    ELSE IF needed = 0
    THEN IF data[i] < 128
         THEN <<data[i]>> \o decodeFrom(data, i + 1, 0, 0, 0, 128, 191)
         ELSE IF data[i] >= 194 /\ data[i] <= 223
         THEN decodeFrom(data, i + 1, 1, 0, data[i] % 32, 128, 191)
         ELSE IF data[i] >= 224 /\ data[i] <= 239
         THEN decodeFrom(data, i + 1, 2, 0, data[i] % 16,
                         IF data[i] = 224 THEN 160 ELSE 128,
                         IF data[i] = 237 THEN 159 ELSE 191)
         ELSE IF data[i] >= 240 /\ data[i] <= 244
         THEN decodeFrom(data, i + 1, 3, 0, data[i] % 8,
                         IF data[i] = 240 THEN 144 ELSE 128,
                         IF data[i] = 244 THEN 143 ELSE 191)
         ELSE <<65533>> \o decodeFrom(data, i + 1, 0, 0, 0, 128, 191)
    ELSE IF data[i] < lower \/ data[i] > upper
    THEN <<65533>> \o decodeFrom(data, i, 0, 0, 0, 128, 191)
    ELSE IF seen + 1 = needed
    THEN utf16(cp * 64 + (data[i] % 64)) \o decodeFrom(data, i + 1, 0, 0, 0, 128, 191)
    ELSE decodeFrom(data, i + 1, needed, seen + 1, cp * 64 + (data[i] % 64), 128, 191)
toString(data) ==
    LET units == decodeFrom(data, 1, 0, 0, 0, 128, 191)
    IN  IF units # <<>> /\ units[1] = 65279 THEN Tail(units) ELSE units

(* crypto.subtle.digest("SHA-256", ...) of the encoded string, for the       *)
(* passwords "" and "abc"                                                    *)
SHA256_DIGESTS ==
    (<<>> :> <<227, 176, 196, 66, 152, 252, 28, 20, 154, 251, 244, 200, 153, 111, 185,
               36, 39, 174, 65, 228, 100, 155, 147, 76, 164, 149, 153, 27, 120, 82, 184,
               85>>)
    @@ (<<97, 98, 99>> :> <<186, 120, 22, 191, 143, 1, 207, 234, 65, 65, 64, 222, 93,
                            174, 34, 35, 176, 3, 97, 163, 150, 23, 122, 156, 180, 16,
                            255, 97, 242, 0, 21, 173>>)
sha256(data) == SHA256_DIGESTS[fromString(data)]

(* byte.toString(16).padStart(2, '0'), joined *)
HEX_DIGITS == <<"0", "1", "2", "3", "4", "5", "6", "7", "8", "9", "a", "b", "c", "d",
                "e", "f">>
RECURSIVE hexFrom(_, _)
hexFrom(bytes, i) ==
    IF i > Len(bytes) THEN <<>>
    ELSE <<HEX_DIGITS[(bytes[i] \div 16) + 1], HEX_DIGITS[(bytes[i] % 16) + 1]>>
            \o hexFrom(bytes, i + 1)

encryptToHex(text, password) ==
    hexFrom(xorCipher(fromString(text), sha256(password)), 1)

(* parseInt(hexString.substring(i, i + 2), 16) on two hex digits *)
hexValue(c) == CHOOSE v \in 0..15 : HEX_DIGITS[v + 1] = c
decryptFromHex(hexString, password) ==
    LET bytes == [k \in 1..(Len(hexString) \div 2) |->
                     16 * hexValue(hexString[2 * k - 1]) + hexValue(hexString[2 * k])]
    IN  toString(xorCipher(bytes, sha256(password)))

----------------------------------------------------------------------------
(* The cipher applied to chosen arguments, then to its own result.           *)

MaxDataLen == 3
MaxKeyLen == 2
MaxTextLen == 3

SeqsUpTo(S, n) == UNION {[1..k -> S] : k \in 0..n}

CipherBytes == {0, 65, 255}
KeyBytes == {1, 255}
(* A, e acute, the euro sign, U+FEFF, and the surrogates of U+1F600 *)
CipherUnits == {65, 233, 8364, 65279, 55357, 56832}
CipherPasswords == {<<>>, <<97, 98, 99>>}

CipherCall(name, input, key, output, back) ==
    /\ cipherIn' = input
    /\ cipherKey' = key
    /\ cipherOut' = output
    /\ cipherBack' = back
    /\ lastAction' = name
    /\ UNCHANGED <<now, hookVars, filterVars, trackerVars, wheelVars, rawIn, filterOut,
                   emitted, calls, committed, lastCommit, commitGap, fresh, fed, starts,
                   stopRequested, layoutVars>>

XorCipher ==
    /\ lastAction = "init"
    /\ \E d \in SeqsUpTo(CipherBytes, MaxDataLen), p \in SeqsUpTo(KeyBytes, MaxKeyLen) :
          CipherCall("xorCipher", d, p, xorCipher(d, p), <<>>)

XorCipherAgain ==
    /\ lastAction = "xorCipher"
    /\ CipherCall("xorCipher again", cipherIn, cipherKey, cipherOut,
                  xorCipher(cipherOut, cipherKey))

EncryptToHex ==
    /\ lastAction = "init"
    /\ \E t \in SeqsUpTo(CipherUnits, MaxTextLen), p \in CipherPasswords :
          CipherCall("encryptToHex", t, p, encryptToHex(t, p), <<>>)

DecryptFromHex ==
    /\ lastAction = "encryptToHex"
    /\ CipherCall("decryptFromHex", cipherIn, cipherKey, cipherOut,
                  decryptFromHex(cipherOut, cipherKey))

NextCipher == XorCipher \/ XorCipherAgain \/ EncryptToHex \/ DecryptFromHex

SpecCipher == Init /\ [][NextCipher]_vars

----------------------------------------------------------------------------
(* Properties of the zone selector, under SpecWheel *)

(* C1: dwell timing.  While tracking is on, no cooldown is active and a zone *)
(* stays hovered, the frame that finds DWELL_TIME elapsed is pending as soon *)
(* as the time is reached (never zero commits), that frame commits exactly   *)
(* the hovered zone and disarms hover, dwell and frame (never two), and no   *)
(* frame commits before DWELL_TIME has elapsed.                              *)
C1_DwellDue ==
    (/\ status = "active" /\ now >= cooldownUntil
     /\ hoveredZone # NULL /\ dwellStartTime # NULL
     /\ now - dwellStartTime >= DWELL_TIME)
        => (rafRef /\ frameDue /\ now - dwellStartTime = DWELL_TIME)
C1_DwellStep ==
    /\ (/\ lastAction' = "tick" /\ status = "active" /\ now >= cooldownUntil
        /\ hoveredZone # NULL /\ dwellStartTime # NULL
        /\ now - dwellStartTime >= DWELL_TIME)
           => (/\ committed' = <<hoveredZone>>
               /\ hoveredZone' = NULL /\ dwellStartTime' = NULL /\ ~rafRef'
               /\ cooldownUntil' = now + COOLDOWN_TIME)
    /\ (lastAction' = "tick" /\ committed' # <<>>)
           => (dwellStartTime # NULL /\ now - dwellStartTime >= DWELL_TIME)
C1_DwellCommitsOnce == []C1_DwellDue /\ [][C1_DwellStep]_vars
C1_Witness ==
    /\ lastAction = "tick" /\ committed # <<>> /\ emitted # <<>>
    /\ cooldownUntil = now + COOLDOWN_TIME

C12_Idle == hoveredZone = NULL => (dwellStartTime = NULL /\ dwellProgress = 0)
C12_Step ==
    /\ (hoveredZone' # NULL /\ hoveredZone' # hoveredZone)
          => (dwellStartTime' = now' /\ dwellProgress' = 0)
    /\ (hoveredZone' # NULL /\ dwellStartTime' # now')
          => (hoveredZone' = hoveredZone /\ dwellStartTime' = dwellStartTime)
    /\ (lastAction' = "tick" /\ committed' # <<>>)
          => (/\ committed' = <<hoveredZone>> /\ dwellStartTime # NULL
              /\ dwellStartTime <= now - DWELL_TIME)
C12_NoCoasting == []C12_Idle /\ [][C12_Step]_vars
C12_Witness ==
    /\ lastAction = "tick" /\ committed = <<CENTER_INDEX>>
    /\ now - Epoch > DWELL_TIME /\ commitGap = NULL

(* C13: only interactive zones commit.  The zone of every commit is          *)
(* interactive at the level and group in force when it is committed; every   *)
(* event and every change of level or group comes with a commit; a click,    *)
(* key press or frame that commits nothing emits nothing and leaves level,   *)
(* group and cooldown as they were (a click or key press leaves the whole    *)
(* wheel as it was); and handleZoneActivation on a zone that is not          *)
(* interactive returns the state unchanged with no event.                    *)
C13_Inert ==
    \A z \in ZoneIndices :
        ~isZoneInteractive(z, selectionLevel, language, selectedZone)
           => handleZoneActivation(wheelNow, propsNow, z, now)
                = Activation(wheelNow, <<>>, <<>>)
C13_Step ==
    /\ committed' # <<>>
          => isZoneInteractive(committed'[1], selectionLevel, language, selectedZone)
    /\ (emitted' # <<>> \/ selectionLevel' # selectionLevel \/ selectedZone' # selectedZone)
          => committed' # <<>>
    /\ (lastAction' \in {"handleClick", "handleKeyDown", "tick"} /\ committed' = <<>>)
          => (/\ emitted' = <<>> /\ cooldownUntil' = cooldownUntil
              /\ lastAction' # "tick" => UNCHANGED wheelVars)
C13_OnlyInteractiveCommit == []C13_Inert /\ [][C13_Step]_vars
C13_Witness ==
    /\ lastAction = "handleClick" /\ committed = <<>> /\ selectionLevel = "letter"
    /\ ~isZoneInteractive(6, selectionLevel, language, selectedZone)

(* the pointer of the current props against the container *)
C23_Outside ==
    \/ propsNow.gazeX < ORIGIN_PX * PX
    \/ propsNow.gazeY < ORIGIN_PX * PX
    \/ propsNow.gazeX > (ORIGIN_PX + 3 * CELL_PX + 2 * GAP_PX) * PX
    \/ propsNow.gazeY > (ORIGIN_PX + 3 * CELL_PX + 2 * GAP_PX) * PX
C23_Guarded == ~propsNow.isTracking \/ C23_Outside \/ now < cooldownUntil
C23_Cleared(w) == w.hoveredZone = NULL /\ w.dwellStartTime = NULL /\ w.dwellProgress = 0

(* C23: with tracking disabled, or the pointer outside the container, or the *)
(* time before cooldownUntil, evaluating the pointer gives no hovered zone,  *)
(* no dwell start and progress 0, and that is the state the wheel is in.     *)
C23_SelectorGuard ==
    C23_Guarded => /\ C23_Cleared(gazeEffect(wheelNow, propsNow, now))
                   /\ C23_Cleared(wheelNow)
C23_Witness ==
    /\ lastAction = "propsChanged" /\ propsNow.isTracking /\ ~C23_Outside
    /\ now < cooldownUntil /\ selectionLevel = "letter"
    /\ C23_Cleared(wheelNow)
    /\ hoverCandidate(wheelNow, propsNow, now).hoveredZone # NULL

(* The geometry of a zone against a pointer, from the layout: the zone's    *)
(* rectangle with and without its edge, the squared distance to its centre,  *)
(* and that distance against 1.1 and 1.35 times the radius (half a cell).    *)
C24_Left(index) == (ORIGIN_PX + zoneColumn(index) * (CELL_PX + GAP_PX)) * PX
C24_Top(index) == (ORIGIN_PX + zoneRow(index) * (CELL_PX + GAP_PX)) * PX
C24_Contains(index, x, y) ==
    /\ C24_Left(index) <= x /\ x <= C24_Left(index) + CELL_PX * PX
    /\ C24_Top(index) <= y /\ y <= C24_Top(index) + CELL_PX * PX
C24_StrictlyContains(index, x, y) ==
    /\ C24_Left(index) < x /\ x < C24_Left(index) + CELL_PX * PX
    /\ C24_Top(index) < y /\ y < C24_Top(index) + CELL_PX * PX
C24_D2(index, x, y) ==
    LET dx == x - (C24_Left(index) + (CELL_PX * PX) \div 2)
        dy == y - (C24_Top(index) + (CELL_PX * PX) \div 2)
    IN  dx * dx + dy * dy
C24_R2 == ((CELL_PX * PX) \div 2) * ((CELL_PX * PX) \div 2)
C24_WithinSnap(d2) == d2 * 100 <= 121 * C24_R2
C24_WithinExit(d2) == d2 * 400 <= 729 * C24_R2
C24_Within(index, hovered, d2) ==
    IF index = hovered THEN C24_WithinExit(d2) ELSE C24_WithinSnap(d2)
C24_Interactive(level, lang, selected) ==
    {index \in 0..(Len(ZONE_NAMES) - 1) : isZoneInteractive(index, level, lang, selected)}

(* z is a right pick for the pointer (x, y) among the zones of I when        *)
(* hovered was the hovered zone                                              *)
C24_Picked(z, hovered, I, x, y) ==
    LET containing == {index \in I : C24_Contains(index, x, y)}
        nearest == {index \in I : \A other \in I : C24_D2(index, x, y) <= C24_D2(other, x, y)}
    IN  /\ z # NULL => z \in I
        /\ containing # {}
              => /\ z \in containing
                 /\ \A other \in containing : C24_D2(z, x, y) <= C24_D2(other, x, y)
        /\ (containing = {} /\ z # NULL)
              => (z \in nearest /\ C24_Within(z, hovered, C24_D2(z, x, y)))
        /\ (containing = {} /\ z = NULL)
              => \E index \in nearest : ~C24_Within(index, hovered, C24_D2(index, x, y))

(* the pointer has just been evaluated past the three guards *)
C24_Evaluated ==
    /\ lastAction = "propsChanged" /\ propsNow.isTracking /\ ~C23_Outside
    /\ now >= cooldownUntil

C24_Step ==
    C24_Evaluated'
        => C24_Picked(hoveredZone', hoveredZone,
                      C24_Interactive(selectionLevel', language', selectedZone'),
                      propsNow.gazeX', propsNow.gazeY')

(* C24: only zones interactive at the active level are picked; a zone that   *)
(* contains the pointer wins over every zone that does not, the nearest of   *)
(* the containing zones wins; with no containing zone the nearest zone is    *)
(* picked only within 1.1 radii, or 1.35 radii when it is the hovered zone,  *)
(* and otherwise no zone is hovered.                                         *)
C24_ZonePicking == [][C24_Step]_vars
C24_Witness ==
    /\ C24_Evaluated /\ hoveredZone = NULL /\ selectionLevel = "letter"
    /\ \A index \in C24_Interactive(selectionLevel, language, selectedZone) :
          /\ ~C24_Contains(index, propsNow.gazeX, propsNow.gazeY)
          /\ ~C24_WithinSnap(C24_D2(index, propsNow.gazeX, propsNow.gazeY))
    /\ \E index \in C24_Interactive(selectionLevel, language, selectedZone) :
          C24_WithinExit(C24_D2(index, propsNow.gazeX, propsNow.gazeY))

(* the pointer of the next state is where the claim of retention applies:    *)
(* evaluated past the guards, in no interactive zone, the hovered zone       *)
(* within 1.35 radii                                                         *)
C25_Retainable ==
    /\ hoveredZone # NULL
    /\ C24_Evaluated'
    /\ \A index \in C24_Interactive(selectionLevel', language', selectedZone') :
          ~C24_Contains(index, propsNow.gazeX', propsNow.gazeY')
    /\ C24_WithinExit(C24_D2(hoveredZone, propsNow.gazeX', propsNow.gazeY'))
C25_Retained == hoveredZone' = hoveredZone /\ dwellStartTime' = dwellStartTime
(* no other interactive zone is nearer, or as near and earlier in the scan *)
C25_Nearest ==
    \A other \in C24_Interactive(selectionLevel', language', selectedZone') \ {hoveredZone} :
        \/ C24_D2(other, propsNow.gazeX', propsNow.gazeY')
              > C24_D2(hoveredZone, propsNow.gazeX', propsNow.gazeY')
        \/ /\ C24_D2(other, propsNow.gazeX', propsNow.gazeY')
                = C24_D2(hoveredZone, propsNow.gazeX', propsNow.gazeY')
           /\ other > hoveredZone
C25_Step == (C25_Retainable /\ C25_Nearest) => C25_Retained
C25_AnyStep == C25_Retainable => C25_Retained

C26_EdgeIsInside ==
    (/\ C24_Evaluated
     /\ \E index \in C24_Interactive(selectionLevel, language, selectedZone) :
           C24_Contains(index, propsNow.gazeX, propsNow.gazeY))
        => /\ hoveredZone # NULL
           /\ C24_Contains(hoveredZone, propsNow.gazeX, propsNow.gazeY)
C26_Witness ==
    /\ C24_Evaluated /\ hoveredZone # NULL
    /\ C24_Contains(hoveredZone, propsNow.gazeX, propsNow.gazeY)
    /\ ~C24_StrictlyContains(hoveredZone, propsNow.gazeX, propsNow.gazeY)
    /\ ~C24_WithinExit(C24_D2(hoveredZone, propsNow.gazeX, propsNow.gazeY))
(* C26 as stated: a pointer that is not strictly inside the hovered zone is  *)
(* there by the tolerance rule                                               *)
C26_StrictlyInside ==
    (/\ C24_Evaluated /\ hoveredZone # NULL
     /\ ~C24_StrictlyContains(hoveredZone, propsNow.gazeX, propsNow.gazeY))
        => C24_WithinExit(C24_D2(hoveredZone, propsNow.gazeX, propsNow.gazeY))

(* tracking is on and the pointer lies strictly inside the interactive zone *)
C34_Resting(index) ==
    /\ propsNow.isTracking /\ ~showCalibration /\ gazeData # <<>>
    /\ isZoneInteractive(index, selectionLevel, language, selectedZone)
    /\ propsNow.gazeX > zoneRect(index).left /\ propsNow.gazeX < zoneRect(index).right
    /\ propsNow.gazeY > zoneRect(index).top /\ propsNow.gazeY < zoneRect(index).bottom

(* C34: re-arming after cooldown.  With tracking on and the pointer inside   *)
(* an interactive zone, the zone is hovered again once the cooldown of the   *)
(* last commit is over: by the time a new dwell could have completed         *)
(* (DWELL_TIME after the expiry) the wheel is not still without a hovered    *)
(* zone.                                                                     *)
C34_RearmsAfterCooldown ==
    \A index \in ZoneIndices :
        (/\ C34_Resting(index) /\ lastCommit # NULL
         /\ now >= cooldownUntil + DWELL_TIME)
            => hoveredZone # NULL

(* C14: a commit at Group level on a zone other than Center and South sets   *)
(* the level to Letter with that zone, whose group has letters, as the       *)
(* chosen group, and emits no event; and for every group of the language in  *)
(* use, its i-th letter (i <= 7) is assigned to the i-th zone of Northwest,  *)
(* North, Northeast, East, Southeast, Southwest, West, distinct letters to   *)
(* distinct zones, none to Center or South.                                  *)
C14_ZoneOrder ==
    <<"Northwest", "North", "Northeast", "East", "Southeast", "Southwest", "West">>
C14_Mapping ==
    \A g \in ZoneIndices :
        LET letters == zoneLetters(language, g)
            assigned == letterAssignments(language, g)
        IN  /\ \A i \in 1..Len(letters) :
                  i <= Len(C14_ZoneOrder)
                     => \E z \in DOMAIN assigned :
                           /\ ZONE_NAMES[z + 1] = C14_ZoneOrder[i]
                           /\ assigned[z] = letters[i]
            /\ Cardinality(DOMAIN assigned) = Min(Len(letters), Len(C14_ZoneOrder))
            /\ CENTER_INDEX \notin DOMAIN assigned
            /\ SOUTH_INDEX \notin DOMAIN assigned
C14_Step ==
    (/\ committed' # <<>> /\ selectionLevel = "group"
     /\ committed'[1] \notin {CENTER_INDEX, SOUTH_INDEX})
        => (/\ Len(zoneLetters(language, committed'[1])) > 0
            /\ selectionLevel' = "letter" /\ selectedZone' = committed'[1]
            /\ emitted' = <<>>)
C14_GroupToLetter == []C14_Mapping /\ [][C14_Step]_vars
C14_Witness ==
    /\ lastAction = "tick" /\ committed # <<>> /\ emitted = <<>>
    /\ selectionLevel = "letter" /\ selectedZone = committed[1]
    /\ Len(zoneLetters(language, selectedZone)) < Len(C14_ZoneOrder)

(* C15: a commit at Letter level returns the level to Group and discards the *)
(* chosen group; on Center it fires exactly one selection event, the space;  *)
(* on South no event; on any other zone exactly one selection event carrying *)
(* the letter of the chosen group whose place in the group is the zone's     *)
(* place in the fixed zone order.                                            *)
C15_Letter(zone) ==
    zoneLetters(language, selectedZone)
        [CHOOSE i \in 1..Len(C14_ZoneOrder) : ZONE_NAMES[zone + 1] = C14_ZoneOrder[i]]
C15_Step ==
    (committed' # <<>> /\ selectionLevel = "letter")
        => (/\ selectionLevel' = "group" /\ selectedZone' = NULL
            /\ emitted' = IF committed'[1] = CENTER_INDEX THEN <<OnSelection(" ")>>
                           ELSE IF committed'[1] = SOUTH_INDEX THEN <<>>
                           ELSE <<OnSelection(C15_Letter(committed'[1]))>>)
C15_LetterCommits == [][C15_Step]_vars
C15_Witness ==
    /\ lastAction = "tick" /\ committed = <<0>> /\ selectionLevel = "group"
    /\ selectedZone = NULL /\ emitted \in {<<OnSelection("V")>>, <<OnSelection("T")>>}

(* C16: a commit at Group level on Center fires exactly one submit and no    *)
(* selection event, on South exactly one selection event, the deletion, and  *)
(* no submit; either way the level stays Group, no group is chosen, and the  *)
(* cooldown runs for COOLDOWN_TIME from the commit.                          *)
C16_Step ==
    (/\ committed' # <<>> /\ selectionLevel = "group"
     /\ committed'[1] \in {CENTER_INDEX, SOUTH_INDEX})
        => (/\ emitted' = IF committed'[1] = CENTER_INDEX THEN <<OnSubmit>>
                           ELSE <<OnSelection("DELETE")>>
            /\ selectionLevel' = "group" /\ selectedZone' = NULL
            /\ cooldownUntil' = now + COOLDOWN_TIME)
C16_GroupSpecialZones == [][C16_Step]_vars
C16_Witness ==
    /\ lastAction = "handleKeyDown" /\ committed = <<SOUTH_INDEX>>
    /\ emitted = <<OnSelection("DELETE")>> /\ selectionLevel = "group"
    /\ cooldownUntil = now + COOLDOWN_TIME

C27_Consistent ==
    /\ selectionLevel = "letter" <=> selectedZone # NULL
    /\ selectedZone # NULL
          => /\ selectedZone \notin {CENTER_INDEX, SOUTH_INDEX}
             /\ selectedZone \in 0..(Len(ZONE_NAMES) - 1)
             /\ Len(ALPHABETS[language][selectedZone + 1]) >= 1
C27_Entered ==
    (selectionLevel = "group" /\ selectionLevel' = "letter")
        => (committed' = <<selectedZone'>>
            /\ Len(ALPHABETS[language][selectedZone' + 1]) >= 1)
C27_Committed ==
    committed' # <<>> /\ lastAction' \in {"tick", "handleClick", "handleKeyDown"}
C27_Left == (selectionLevel = "letter" /\ selectionLevel' # "letter") => C27_Committed
C27_LeftOrUnmounted ==
    (selectionLevel = "letter" /\ selectionLevel' # "letter")
        => (C27_Committed \/ (~showCalibration /\ showCalibration'))

(* C27, as amended: the level is Letter exactly when a chosen group is       *)
(* remembered; the chosen group is a zone other than Center and South whose  *)
(* group has at least one letter; the level becomes Letter only by a commit  *)
(* on such a group, and leaves Letter only by a commit made at Letter level  *)
(* or when the calibration overlay takes the wheel's place.                  *)
C27_LevelConsistent == []C27_Consistent /\ [][C27_Entered /\ C27_LeftOrUnmounted]_vars
C27_Witness ==
    /\ selectionLevel = "group" /\ selectedZone = NULL /\ committed = <<SOUTH_INDEX>>
    /\ emitted = <<>> /\ lastAction = "handleClick" /\ language = "spanish"
(* C27 as stated: the level leaves Letter only by a commit at Letter level *)
C27_OnlyByCommit == []C27_Consistent /\ [][C27_Entered /\ C27_Left]_vars

----------------------------------------------------------------------------
(* Properties of the session, under Spec *)

InCalls(name) == \E i \in DOMAIN calls : calls[i] = name

C19_OneTimer == restarting <=> restartTimer # NULL
C19_Guarded ==
    restarting =>
        \A pauseThrows \in BOOLEAN :
            LET r == restartTracking(pauseThrows)
            IN  /\ r.paused = paused /\ r.restartTimer = restartTimer /\ r.restarting
                /\ \A i \in DOMAIN r.calls : r.calls[i] # "pause"
C19_Step ==
    /\ InCalls("pause")'
          => (/\ ~restarting /\ restartTimer = NULL
              /\ restarting' /\ restartTimer' = now + RESTART_DELAY)
    /\ InCalls("resume")'
          => (/\ restarting /\ restartTimer # NULL
              /\ ~restarting' /\ restartTimer' = NULL)
C19_SingleRestart == [](C19_OneTimer /\ C19_Guarded) /\ [][C19_Step]_vars
C19_Witness ==
    /\ lastAction = "restartTimer" /\ InCalls("resume")
    /\ ~restarting /\ restartTimer = NULL /\ status = "reconnecting"

(* C20: an automatic restart keeps the status within active and             *)
(* reconnecting.  restartTracking starts from one of the two and sets        *)
(* reconnecting, whether or not pause() throws; the restart timer leaves the *)
(* status as it is, whether or not resume() throws; an accepted sample       *)
(* turns reconnecting into active; and while a restart is in flight the      *)
(* status is one of the two.                                                 *)
C20_InFlight == restarting => status \in {"active", "reconnecting"}
C20_Step ==
    /\ lastAction' = "restartTracking"
          => (status \in {"active", "reconnecting"} /\ status' = "reconnecting")
    /\ lastAction' = "restartTimer" => status' = status
    /\ (lastAction' = "handleGazeData" /\ filterOut' # <<>> /\ status = "reconnecting")
          => status' = "active"
C20_RestartKeepsStatus == []C20_InFlight /\ [][C20_Step]_vars
C20_Witness ==
    /\ lastAction = "restartTimer" /\ paused /\ ~restarting /\ status = "reconnecting"

(* C21: while the status is denied or error no restart timer and no         *)
(* health-check interval is pending, no restart is in flight, the history    *)
(* and the smoothed point are empty and the session is marked stopped; and   *)
(* a session marked stopped has no timer pending and gets no pause or resume *)
(* call, so no automatic restart follows.                                    *)
C21_FailureNeutralises ==
    /\ status \in {"denied", "error"}
          => (/\ restartTimer = NULL /\ healthInterval = NULL /\ ~restarting
              /\ gazeHistory = <<>> /\ smoothedPoint = <<>> /\ isManuallyStopped)
    /\ isManuallyStopped
          => (/\ restartTimer = NULL /\ healthInterval = NULL /\ ~restarting
              /\ ~InCalls("pause") /\ ~InCalls("resume"))
C21_Witness ==
    /\ lastAction \in {"handleError", "handleCameraDenied"}
    /\ status \in {"denied", "error"} /\ hasCalibrated /\ paused
    /\ now > Epoch + AUTO_RESTART_THRESHOLD

(* C5: once the status is denied or error, only startTracking changes it *)
C5_TerminalFailure ==
    [][(status \in {"denied", "error"} /\ lastAction' # "startTracking")
          => status' = status]_vars

(* C32: whenever the session is marked manually stopped, the status is        *)
(* inactive, denied or error: nothing that completes after the stop (a       *)
(* tracker begin() settling, a calibration finishing) makes it active.       *)
C32_StoppedIsNotActive ==
    isManuallyStopped => status \in {"inactive", "denied", "error"}

(* C33: no dwell without gaze data.  While no gaze sample has been published *)
(* (gaze data absent) the wheel has no hovered zone and no dwell in          *)
(* progress, and the only commits are clicks and key presses: the (0, 0)     *)
(* coordinates the wheel is given instead never act as a pointer position.   *)
C33_NoDwellWithoutGaze ==
    gazeData = <<>>
        => /\ hoveredZone = NULL
           /\ dwellStartTime = NULL
           /\ committed # <<>> => lastAction \in {"handleClick", "handleKeyDown"}

(* C35: a sample callback that arrives while the session is marked stopped   *)
(* has no effect: the filter history, the smoothed point, the published gaze *)
(* data, the last-result timestamp and the status are unchanged.             *)
C35_StoppedSampleIgnored ==
    [][(isManuallyStopped /\ lastAction' = "handleGazeData")
          => UNCHANGED <<gazeHistory, smoothedPoint, gazeData, lastResult, status>>]_vars

(* a finite sample has just been delivered to a stopped session *)
C35_Witness ==
    /\ lastAction = "handleGazeData" /\ isManuallyStopped
    /\ rawIn # <<>> /\ isFinite(rawIn[1].x) /\ isFinite(rawIn[1].y)

(* C36: during a first, uncalibrated start the status stays calibrating      *)
(* until calibration completes, unless a denial, an error or a stop          *)
(* intervenes; a gaze sample received meanwhile does not change it.          *)
C36_CalibratingUntilDone ==
    [][(status = "calibrating" /\ ~hasCalibrated /\ status' # "calibrating")
          => lastAction' \in {"handleCalibrationDone", "handleError", "handleCameraDenied",
                              "stopTracking", "startTracking"}]_vars

(* while the status is not active the wheel hovers nothing, runs no dwell    *)
(* and has no frame pending                                                  *)
C37_Idle == status # "active" => (hoveredZone = NULL /\ dwellStartTime = NULL /\ ~rafRef)
(* a frame commits only with the status active before and after; a commit    *)
(* with another status is a click or a key press; a dwell that exists when   *)
(* the status becomes active starts at that moment                           *)
C37_Step ==
    /\ (lastAction' = "tick" /\ committed' # <<>>)
          => (status = "active" /\ status' = "active")
    /\ (committed' # <<>> /\ status' # "active")
          => lastAction' \in {"handleClick", "handleKeyDown"}
    /\ (status # "active" /\ status' = "active" /\ dwellStartTime' # NULL)
          => dwellStartTime' = now'

(* C37: dwell-triggered commits happen only while the status is active.      *)
(* With any other status the wheel has no hovered zone and no dwell-         *)
(* triggered commit occurs, and a dwell in progress when the status leaves   *)
(* active is discarded: when the status is active again the dwell starts     *)
(* from zero.                                                                *)
C37_DwellOnlyWhileActive == []C37_Idle /\ [][C37_Step]_vars
(* the status has left active for reconnecting with the pointer resting      *)
(* inside an interactive zone                                                *)
C37_Witness ==
    /\ status = "reconnecting" /\ gazeData # <<>> /\ ~showCalibration
    /\ \E index \in ZoneIndices :
          /\ isZoneInteractive(index, selectionLevel, language, selectedZone)
          /\ gazeData[1].x > zoneRect(index).left /\ gazeData[1].x < zoneRect(index).right
          /\ gazeData[1].y > zoneRect(index).top /\ gazeData[1].y < zoneRect(index).bottom
    /\ now >= cooldownUntil

(* C38: the in-flight restart flag is true exactly when a restart timer is   *)
(* pending, after every startTracking, restartTracking, expiry of the        *)
(* restart timer, stopTracking, denial and error.                            *)
C38_FlagIffTimer ==
    lastAction \in {"startTracking", "restartTracking", "restartTimer", "stopTracking",
                    "handleError", "handleCameraDenied"}
        => (restarting <=> restartTimer # NULL)
(* a restart has just begun: the flag is set and the timer is RESTART_DELAY  *)
(* ahead                                                                     *)
C38_Witness ==
    /\ lastAction = "restartTracking" /\ restarting
    /\ restartTimer = now + RESTART_DELAY

(* C6: a calibrated running session (not stopped, status active or           *)
(* reconnecting) never stays without a sample for longer than                *)
(* AUTO_RESTART_THRESHOLD plus one health-check period: by then the health   *)
(* check has begun a restart, which counts as a fresh result.                *)
C6_StaleSessionRestarts ==
    (/\ ~isManuallyStopped /\ hasCalibrated /\ ~showCalibration
     /\ status \in {"active", "reconnecting"} /\ lastResult # NULL)
        => now - lastResult <= AUTO_RESTART_THRESHOLD + HEALTH_CHECK_INTERVAL

(* C10: the first finite sample after a session restart (startTracking,      *)
(* restartTracking, calibration completion) is output exactly as given.      *)
C10_FirstSampleRaw ==
    [][(fresh /\ lastAction' = "handleGazeData" /\ filterOut' # <<>>)
          => filterOut'[1] = Pt(rawIn'[1].x, rawIn'[1].y)]_vars

----------------------------------------------------------------------------
(* Properties of the filter, under SpecFilter *)

finiteSample(raw) == raw # <<>> /\ isFinite(raw[1].x) /\ isFinite(raw[1].y)

(* C7: a finite sample more than 6 x FIXATION_MAX_RADIUS_PX from the last    *)
(* output, at more than the extreme-saccade velocity, is output as given.    *)
C7_SaccadeSnaps ==
    [][(/\ lastAction' = "computeFilteredGazePoint" /\ finiteSample(rawIn')
        /\ smoothedPoint # <<>>
        /\ rawIn'[1].time > smoothedPoint[1].time
        /\ rawIn'[1].time - smoothedPoint[1].time <= GAZE_HISTORY_MS
        /\ isExtremeSaccade(hypot2(rawIn'[1].x - smoothedPoint[1].x,
                                   rawIn'[1].y - smoothedPoint[1].y),
                            rawIn'[1].time - smoothedPoint[1].time))
          => filterOut'[1] = Pt(rawIn'[1].x, rawIn'[1].y)]_vars

(* C8: the history holds at most MAX_HISTORY_POINTS entries and its oldest   *)
(* entry is at most GAZE_HISTORY_MS older than the latest sample given.      *)
C8_HistoryBounded ==
    /\ Len(gazeHistory) <= MAX_HISTORY_POINTS
    /\ (gazeHistory # <<>> /\ rawIn # <<>>)
          => rawIn[1].time - gazeHistory[1].time <= GAZE_HISTORY_MS

(* C9: a finite sample farther than OUTLIER_THRESHOLD_PX from the last       *)
(* recorded raw sample changes neither the history nor the smoothed point;   *)
(* the output is the smoothed point (the last raw point if there is none),   *)
(* the same output as the finite sample before it gave.                      *)
C9_OutlierStep ==
    (/\ lastAction' = "computeFilteredGazePoint" /\ finiteSample(rawIn')
     /\ gazeHistory # <<>>
     /\ hypot2(rawIn'[1].x - gazeHistory[Len(gazeHistory)].x,
               rawIn'[1].y - gazeHistory[Len(gazeHistory)].y)
          > (OUTLIER_THRESHOLD_PX * PX) * (OUTLIER_THRESHOLD_PX * PX))
        => /\ gazeHistory' = gazeHistory
           /\ smoothedPoint' = smoothedPoint
           /\ filterOut'[1] = IF smoothedPoint # <<>>
                              THEN Pt(smoothedPoint[1].x, smoothedPoint[1].y)
                              ELSE Pt(gazeHistory[Len(gazeHistory)].x,
                                      gazeHistory[Len(gazeHistory)].y)
           /\ (lastAction = "computeFilteredGazePoint" /\ finiteSample(rawIn))
                 => filterOut' = filterOut
C9_OutlierRejected == [][C9_OutlierStep]_vars
C9_Witness ==
    /\ lastAction = "computeFilteredGazePoint" /\ finiteSample(rawIn)
    /\ gazeHistory # <<>> /\ smoothedPoint # <<>>
    /\ hypot2(rawIn[1].x - gazeHistory[Len(gazeHistory)].x,
              rawIn[1].y - gazeHistory[Len(gazeHistory)].y)
         > (OUTLIER_THRESHOLD_PX * PX) * (OUTLIER_THRESHOLD_PX * PX)
    /\ filterOut[1] = Pt(smoothedPoint[1].x, smoothedPoint[1].y)
    /\ Len(gazeHistory) >= 2

(* C11: a finite sample whose timestamp is more than GAZE_HISTORY_MS after   *)
(* the smoothed point's is output exactly as given and becomes the smoothed  *)
(* point, wherever it lies.                                                  *)
C11_StalenessReset ==
    [][(/\ lastAction' = "computeFilteredGazePoint" /\ finiteSample(rawIn')
        /\ smoothedPoint # <<>>
        /\ rawIn'[1].time - smoothedPoint[1].time > GAZE_HISTORY_MS)
          => /\ filterOut'[1] = Pt(rawIn'[1].x, rawIn'[1].y)
             /\ smoothedPoint' = <<rawIn'[1]>>]_vars

(* C17: fixation stability.  Fed from a reset filter with samples within     *)
(* 5 px of (500, 500), among them MIN_FIXATION_SAMPLES or more that span     *)
(* FIXATION_MIN_DURATION_MS or more, every output of the filter lies within  *)
(* FIXATION_MAX_RADIUS_PX of (500, 500).                                     *)
C17_FixationStable ==
    filterOut # <<>>
        => hypot2(filterOut[1].x - FixationTarget[1] * PX,
                  filterOut[1].y - FixationTarget[2] * PX)
             <= (FIXATION_MAX_RADIUS_PX * PX) * (FIXATION_MAX_RADIUS_PX * PX)
C17_Witness ==
    /\ lastAction = "computeFilteredGazePoint"
    /\ Len(gazeHistory) >= MIN_FIXATION_SAMPLES
    /\ gazeHistory[Len(gazeHistory)].time - gazeHistory[1].time >= FIXATION_MIN_DURATION_MS
    /\ fixation(windowPoints(gazeHistory, now), now) # <<>>
    /\ \E i \in DOMAIN gazeHistory : gazeHistory[i].x # FixationTarget[1] * PX
    /\ filterOut[1] # Pt(rawIn[1].x, rawIn[1].y)

(* C18: a sample whose x or y is not finite is returned as given, and the    *)
(* history and the smoothed point stay as they were.                         *)
C18_Step ==
    (/\ lastAction' = "computeFilteredGazePoint" /\ rawIn' # <<>>
     /\ (rawIn'[1].x = NONFINITE \/ rawIn'[1].y = NONFINITE))
        => (/\ filterOut' = <<Pt(rawIn'[1].x, rawIn'[1].y)>>
            /\ gazeHistory' = gazeHistory /\ smoothedPoint' = smoothedPoint)
C18_NonFinitePassesThrough == [][C18_Step]_vars
C18_Witness ==
    /\ lastAction = "computeFilteredGazePoint" /\ rawIn # <<>>
    /\ rawIn[1].y = NONFINITE /\ filterOut = <<Pt(rawIn[1].x, NONFINITE)>>
    /\ gazeHistory # <<>> /\ smoothedPoint # <<>>

(* the sample of the step is finite and not rejected as an outlier *)
C28_Accepted ==
    /\ lastAction' = "computeFilteredGazePoint" /\ rawIn' # <<>>
    /\ rawIn'[1].x # NONFINITE /\ rawIn'[1].y # NONFINITE
    /\ \/ gazeHistory = <<>>
       \/ hypot2(rawIn'[1].x - gazeHistory[Len(gazeHistory)].x,
                 rawIn'[1].y - gazeHistory[Len(gazeHistory)].y)
            <= (OUTLIER_THRESHOLD_PX * PX) * (OUTLIER_THRESHOLD_PX * PX)
C28_Step ==
    (lastAction' = "computeFilteredGazePoint" /\ rawIn' # <<>>)
        => IF C28_Accepted
           THEN smoothedPoint' = <<Sample(filterOut'[1].x, filterOut'[1].y, rawIn'[1].time)>>
           ELSE smoothedPoint' = smoothedPoint

(* C28: after a sample that is finite and not rejected as an outlier the     *)
(* smoothed point is the output just given, with the sample's timestamp;     *)
(* after a non-finite or rejected sample it is unchanged.                    *)
C28_RecordRule == [][C28_Step]_vars
C28_Witness ==
    /\ lastAction = "computeFilteredGazePoint" /\ finiteSample(rawIn)
    /\ smoothedPoint # <<>> /\ smoothedPoint[1].time < rawIn[1].time
    /\ filterOut = <<Pt(smoothedPoint[1].x, smoothedPoint[1].y)>>
    /\ filterOut[1] # Pt(rawIn[1].x, rawIn[1].y)
    /\ fed >= 3

(* the step smooths adaptively: an accepted sample, a previous smoothed      *)
(* point that is not stale, no fixation, no extreme saccade                  *)
C29_Distance2 ==
    hypot2(rawIn'[1].x - smoothedPoint[1].x, rawIn'[1].y - smoothedPoint[1].y)
C29_Dt == Max(16, rawIn'[1].time - smoothedPoint[1].time)
C29_Adaptive ==
    /\ C28_Accepted
    /\ smoothedPoint # <<>>
    /\ rawIn'[1].time - smoothedPoint[1].time <= GAZE_HISTORY_MS
    /\ fixation(windowPoints(gazeHistory', rawIn'[1].time), rawIn'[1].time) = <<>>
    /\ ~isExtremeSaccade(C29_Distance2, C29_Dt)
C29_OnSegment ==
    \E alpha \in SMOOTH_MIN_ALPHA..SMOOTH_MAX_ALPHA :
        filterOut'[1]
          = Pt(smoothedPoint[1].x + (alpha * (rawIn'[1].x - smoothedPoint[1].x)) \div 1000,
               smoothedPoint[1].y + (alpha * (rawIn'[1].y - smoothedPoint[1].y)) \div 1000)
(* the moving-average pass does not run *)
C29_Slow == ~fasterThan(C29_Distance2, C29_Dt, 3) \/ Len(gazeHistory') < 3
C29_Step == (C29_Adaptive /\ C29_Slow) => C29_OnSegment
C29_AnyStep == C29_Adaptive => C29_OnSegment

(* C29, as amended: with no fixation, a previous smoothed point and no       *)
(* extreme saccade, the output is previous + alpha x (raw - previous) with   *)
(* SMOOTH_MIN_ALPHA <= alpha <= SMOOTH_MAX_ALPHA, provided the velocity is   *)
(* at most 0.3 x MAX_VELOCITY_PX_PER_S or the history holds fewer than three *)
(* samples.                                                                  *)
C29_SmoothedWhenSlow == [][C29_Step]_vars
C29_Witness ==
    /\ lastAction = "computeFilteredGazePoint" /\ finiteSample(rawIn)
    /\ Len(gazeHistory) = 2 /\ gazeHistory[1].x < rawIn[1].x
    /\ filterOut = <<Pt(smoothedPoint[1].x, smoothedPoint[1].y)>>
    /\ gazeHistory[1].x + (SMOOTH_MIN_ALPHA * (rawIn[1].x - gazeHistory[1].x)) \div 1000
          <= filterOut[1].x
    /\ filterOut[1].x
          <= gazeHistory[1].x + (SMOOTH_MAX_ALPHA * (rawIn[1].x - gazeHistory[1].x)) \div 1000
(* C29 as stated: the output is on the segment at any velocity *)
C29_Smoothed == [][C29_AnyStep]_vars

(* the step declares a fixation with the given centroid: an accepted sample, *)
(* no stale smoothed point                                                   *)
C30_Fixation(centroid) ==
    /\ C28_Accepted
    /\ smoothedPoint # <<>> => rawIn'[1].time - smoothedPoint[1].time <= GAZE_HISTORY_MS
    /\ centroid # <<>>
C30_Blend(centroid) ==
    Pt(smoothedPoint[1].x + (150 * (centroid[1].x - smoothedPoint[1].x)) \div 1000,
       smoothedPoint[1].y + (150 * (centroid[1].y - smoothedPoint[1].y)) \div 1000)
(* previous smoothed point and centroid are more than a pixel apart, so that  *)
(* rounding to a tenth of a pixel does not decide which of them is closer    *)
C30_Apart(centroid) ==
    hypot2(centroid[1].x - smoothedPoint[1].x, centroid[1].y - smoothedPoint[1].y) > PX * PX
C30_Step ==
    lastAction' = "computeFilteredGazePoint"
        => \A centroid \in {fixation(windowPoints(gazeHistory', now'), now')} :
              C30_Fixation(centroid)
                  => IF smoothedPoint = <<>> THEN filterOut' = <<centroid[1]>>
                     ELSE /\ filterOut' = <<C30_Blend(centroid)>>
                          /\ C30_Apart(centroid)
                                => hypot2(filterOut'[1].x - smoothedPoint[1].x,
                                          filterOut'[1].y - smoothedPoint[1].y)
                                     < hypot2(filterOut'[1].x - centroid[1].x,
                                              filterOut'[1].y - centroid[1].y)
C30_AsStatedStep ==
    lastAction' = "computeFilteredGazePoint"
        => \A centroid \in {fixation(windowPoints(gazeHistory', now'), now')} :
              C30_Fixation(centroid)
                  => IF smoothedPoint = <<>> THEN filterOut' = <<centroid[1]>>
                     ELSE C30_Apart(centroid)
                            => hypot2(filterOut'[1].x - centroid[1].x,
                                      filterOut'[1].y - centroid[1].y)
                                 <= hypot2(filterOut'[1].x - smoothedPoint[1].x,
                                           filterOut'[1].y - smoothedPoint[1].y)

C30_NoPrevious ==
    \A c \in SaccadeCoords :
        stabilize(<<>>, Pt(c[1] * PX, c[2] * PX)) = Pt(c[1] * PX, c[2] * PX)

(* C30, as amended: when a fixation is declared and a previous smoothed      *)
(* point exists, the output is previous + 0.15 x (centroid - previous),      *)
(* which is at least as close to the previous smoothed point as to the       *)
(* centroid; with no previous smoothed point the output is the centroid.     *)
C30_FixationBlend == []C30_NoPrevious /\ [][C30_Step]_vars
C30_Witness ==
    /\ lastAction = "computeFilteredGazePoint" /\ finiteSample(rawIn)
    /\ fixation(windowPoints(gazeHistory, now), now) # <<>>
    /\ filterOut = <<Pt(smoothedPoint[1].x, smoothedPoint[1].y)>>
    /\ filterOut[1].x + 10 * PX < fixation(windowPoints(gazeHistory, now), now)[1].x
(* C30 as stated: the output is at least as close to the centroid as to the  *)
(* previous smoothed point                                                   *)
C30_TowardsCentroid == [][C30_AsStatedStep]_vars

(* the output is within FIXATION_MAX_RADIUS_PX of the point (x, y) *)
C31_Near(out, x, y) ==
    hypot2(out.x - x, out.y - y)
        <= (FIXATION_MAX_RADIUS_PX * PX) * (FIXATION_MAX_RADIUS_PX * PX)
(* the same sample given again dt later moves the filter: it changes the     *)
(* history or the smoothed point, or its output is near the sample           *)
C31_Moves(dt) ==
    \E r \in {computeFilteredGazePoint(gazeHistory, smoothedPoint, rawIn[1].x, rawIn[1].y,
                                        now + dt)} :
        \/ r.history # gazeHistory
        \/ r.smoothed # smoothedPoint
        \/ C31_Near(r.out, rawIn[1].x, rawIn[1].y)

(* C31: the filter cannot get stuck.  After a finite sample at Q whose       *)
(* output is farther than FIXATION_MAX_RADIUS_PX from Q, a further sample at *)
(* Q, 50 ms or more than GAZE_HISTORY_MS later, moves the filter: a state    *)
(* that answers every further sample at Q with the same far output and stays *)
(* as it is never lets the output come near Q.                               *)
C31_NeverStuck ==
    (/\ lastAction = "computeFilteredGazePoint" /\ finiteSample(rawIn)
     /\ ~C31_Near(filterOut[1], rawIn[1].x, rawIn[1].y))
        => \E dt \in FilterGaps : C31_Moves(dt)

(* C39: whenever the filter history is non-empty a smoothed point exists, so *)
(* a rejected outlier is answered with the smoothed point and never with the *)
(* last raw point.                                                           *)
C39_SmoothedWithHistory == gazeHistory # <<>> => smoothedPoint # <<>>
(* an outlier rejected right after the first accepted sample of a session,   *)
(* answered with the smoothed point that sample recorded                     *)
C39_Witness ==
    /\ lastAction = "computeFilteredGazePoint" /\ finiteSample(rawIn)
    /\ Len(gazeHistory) = 1 /\ smoothedPoint # <<>>
    /\ hypot2(rawIn[1].x - gazeHistory[1].x, rawIn[1].y - gazeHistory[1].y)
         > (OUTLIER_THRESHOLD_PX * PX) * (OUTLIER_THRESHOLD_PX * PX)
    /\ smoothedPoint[1].time = gazeHistory[1].time
    /\ filterOut = <<Pt(smoothedPoint[1].x, smoothedPoint[1].y)>>

----------------------------------------------------------------------------
(* Properties of the cipher, under SpecCipher *)

(* a string without a lone surrogate *)
RECURSIVE C22_WellFormed(_, _)
C22_WellFormed(str, i) ==
    IF i > Len(str) THEN TRUE
    ELSE IF isHighSurrogate(str[i])
    THEN i < Len(str) /\ isLowSurrogate(str[i + 1]) /\ C22_WellFormed(str, i + 2)
    ELSE ~isLowSurrogate(str[i]) /\ C22_WellFormed(str, i + 1)

C22_Xor ==
    /\ lastAction \in {"xorCipher", "xorCipher again"} => Len(cipherOut) = Len(cipherIn)
    /\ lastAction = "xorCipher again"
          => (cipherBack = cipherIn /\ Len(cipherBack) = Len(cipherIn))

(* C22, as amended: xorCipher applied twice with the same password gives the *)
(* data back, and every result is as long as its data, for passwords of any  *)
(* length, the empty one included; decryptFromHex(encryptToHex(t, p), p) = t *)
(* for every string t without a lone surrogate that does not begin with      *)
(* U+FEFF.                                                                   *)
C22_RoundTripWellFormed ==
    /\ C22_Xor
    /\ (/\ lastAction = "decryptFromHex" /\ C22_WellFormed(cipherIn, 1)
        /\ (cipherIn = <<>> \/ cipherIn[1] # 65279))
          => cipherBack = cipherIn
C22_Witness ==
    /\ lastAction = "decryptFromHex" /\ Len(cipherIn) = MaxTextLen
    /\ cipherBack = cipherIn /\ Len(cipherOut) > 2 * Len(cipherIn)
    /\ \E i \in DOMAIN cipherIn : isHighSurrogate(cipherIn[i])
(* C22 as stated: the round trip through hex for every string *)
C22_RoundTrip ==
    /\ C22_Xor
    /\ lastAction = "decryptFromHex" => cipherBack = cipherIn

====
